---------------------------- MODULE Spec2Model ----------------------------
(***************************************************************************)
(* A model of core/test/state.go: the governance State of a full node.     *)
(*                                                                         *)
(* Two State instances live on one heap.  The five Go maps of a State      *)
(* (nodes, dkgComplaints, dkgMasterPublicKeys, dkgFinals and               *)
(* pendingChangedConfigs) are heap cells a State refers to; scalars and    *)
(* slices are held by value.  Spec runs the public operations one call at  *)
(* a time; SpecLock runs them as threads that interleave at every lock     *)
(* acquisition of one State.                                               *)
(***************************************************************************)
EXTENDS Integers, Sequences, FiniteSets, TLC

\* ------------------------------------------------------------------ bounds
\* Calls made in one behaviour of Spec.
MaxOps == 4
\* CRS rounds a caller proposes: 0..MaxRound.
MaxRound == 2
\* Caller-held Complaint objects (pointers) 1..NumComplaintObjs.
NumComplaintObjs == 2

\* ------------------------------------------------- StateChangeType ordinals
StateChangeNothing == 0
StateAddCRS == 1
StateAddDKGComplaint == 2
StateAddDKGMasterPublicKey == 3
StateAddDKGFinal == 4
StateChangeNumChains == 5
StateChangeLambdaBA == 6
StateChangeLambdaDKG == 7
StateChangeRoundInterval == 8
StateChangeMinBlockInterval == 9
StateChangeMaxBlockInterval == 10
StateChangeK == 11
StateChangePhiRatio == 12
StateChangeNotarySetSize == 13
StateChangeDKGSetSize == 14
StateAddNode == 15

\* time.Millisecond in nanoseconds.
Millisecond == 1000000

\* ------------------------------------------------------------------ errors
Nil == "nil"
ErrDuplicatedChange == "duplicated change"
ErrForkedCRS == "forked CRS"
ErrMissingPreviousCRS == "missing previous CRS"
ErrUnknownStateChangeType == "unknown state change type"
ErrProposerIsFinal == "proposer is final"
ErrStateConfigNotEqual == "config not equal"
ErrStateLocalFlagNotEqual == "local flag not equal"
ErrStateNodeSetNotEqual == "node set not equal"
ErrStateDKGComplaintsNotEqual == "dkg complaints not equal"
ErrStateDKGMasterPublicKeysNotEqual == "dkg master public keys not equal"
ErrStateDKGFinalsNotEqual == "dkg finalizations not equal"
ErrStateCRSsNotEqual == "crs not equal"
ErrStatePendingChangesNotEqual == "pending changes not equal"
\* errors.New("you are definitely kidding me") of applyRequest.
ErrKidding == "you are definitely kidding me"
\* Errors of the collaborators: the codec and the ECDSA key parser.
ErrDecode == "rlp: decode error"
ErrKeyParse == "ecdsa: invalid public key"

\* ----------------------------------------------------------------- helpers
EmptyMap == <<>>

\* m[key] = v: m with key bound to v.
MapPut(m, key, v) == (key :> v) @@ m

\* Go's m[key] for a map whose value type has zero value `zero`.
MapGet(m, key, zero) == IF key \in DOMAIN m THEN m[key] ELSE zero

\* ---------------------------------------------------- fixed-width integers
\* A uint32 is 4 bytes and a uint64 8 bytes, most significant first.
RECURSIVE NatBytes(_, _)
NatBytes(n, w) ==
    IF w = 0 THEN <<>> ELSE Append(NatBytes(n \div 256, w - 1), n % 256)

RECURSIVE BytesNat(_)
BytesNat(b) ==
    IF b = <<>> THEN 0
    ELSE 256 * BytesNat(SubSeq(b, 1, Len(b) - 1)) + b[Len(b)]

Uint32(n) == NatBytes(n, 4)

\* uint64(x) taking the magnitude of x for its two's-complement pattern.
Uint64OfIntMagnitude(x) == NatBytes(IF x >= 0 THEN x ELSE -x, 8)

\* uint64(x) of a signed 64-bit x (an int or a time.Duration): the
\* two's-complement bit pattern.
Uint64OfInt(x) ==
    IF x >= 0 THEN NatBytes(x, 8)
    ELSE LET m == NatBytes((-x) - 1, 8) IN [i \in 1..8 |-> 255 - m[i]]

\* int(u) of a uint64 u: the same bits read as a signed integer.
IntOfUint64(u) ==
    IF u[1] < 128 THEN BytesNat(u)
    ELSE -(BytesNat([i \in 1..8 |-> 255 - u[i]])) - 1

\* ------------------------------------------------------------------ float32
\* A float32 is its sign, biased exponent and mantissa.
Float32(s, e, m) == [s |-> s, e |-> e, m |-> m]

\* 0.667 = 0x3F2AC083, 0.333 = 0x3EAA7EFA, a quiet NaN = 0x7FC00000.
F0667 == Float32(0, 126, 2801795)
F0333 == Float32(0, 125, 2785018)
FNaN == Float32(0, 255, 4194304)
FNegZero == Float32(1, 0, 0)
FPosZero == Float32(0, 0, 0)

IsNaN(f) == f.e = 255 /\ f.m # 0

\* Go's == on float32: IEEE comparison.
FloatEq(f, g) ==
    /\ ~IsNaN(f)
    /\ ~IsNaN(g)
    /\ \/ f = g
       \/ (f.e = 0 /\ f.m = 0 /\ g.e = 0 /\ g.m = 0)

\* math.Float32bits: the IEEE-754 bit pattern as a uint32.
Float32bits(f) ==
    <<f.s * 128 + f.e \div 2,
      (f.e % 2) * 128 + f.m \div 65536,
      (f.m \div 256) % 256,
      f.m % 256>>

\* math.Float32frombits.
Float32frombits(b) ==
    Float32(b[1] \div 128,
            (b[1] % 128) * 2 + b[2] \div 128,
            (b[2] % 128) * 65536 + b[3] * 256 + b[4])

\* ------------------------------------------------- collaborators' values
\* common.Hash: the genesis CRS keccak256("__ DEXON"), two other hashes and
\* the zero hash common.Hash{}.
GenesisCRS == "keccak256(__ DEXON)"
ZeroHash == "0x00"
Hashes == {GenesisCRS, "h1", "h2"}

\* Serialized public keys. ecdsa.NewPublicKeyFromByteSlice accepts the
\* compressed form (a 0x02 prefix here) and rejects anything else.
KeyBytes(n) == <<2, n>>
BadKeyBytes == <<9>>
NewPublicKeyFromByteSlice(b) ==
    IF Len(b) = 2 /\ b[1] = 2
    THEN [err |-> Nil, key |-> [bytes |-> b]]
    ELSE [err |-> ErrKeyParse, key |-> [bytes |-> <<>>]]

\* types.NewNodeID: the hash of the key's bytes (injective here).
NewNodeID(pubKey) == <<"NodeID", pubKey.bytes>>

GenesisKeys == {[bytes |-> KeyBytes(1)], [bytes |-> KeyBytes(2)]}
Proposers == {NewNodeID(key) : key \in GenesisKeys}

\* A pointer no caller holds: what a decode or a clone allocates.
Fresh == 0

\* typesDKG.Complaint, MasterPublicKey and Finalize. ptr is the identity
\* of the Complaint object (the code compares complaints by pointer).
Complaint(p, r, share, ptr) ==
    [ProposerID |-> p, Round |-> r, PrivateShare |-> share, ptr |-> ptr]
MasterPublicKey(p, r, shares) ==
    [ProposerID |-> p, Round |-> r, PublicKeyShares |-> shares]
Finalize(p, r) == [ProposerID |-> p, Round |-> r]

\* Complaint.Equal: structural, whatever the pointers.
ComplaintEqual(a, b) ==
    /\ a.ProposerID = b.ProposerID
    /\ a.Round = b.Round
    /\ a.PrivateShare = b.PrivateShare

\* ------------------------------------------------------------------ codec
\* rlp: an item is a byte string or a list of fields. An unsigned integer
\* is the byte string of its big-endian bytes without leading zeros.
RECURSIVE StripZeros(_)
StripZeros(b) ==
    IF b # <<>> /\ b[1] = 0 THEN StripZeros(Tail(b)) ELSE b

RlpString(b) == [k |-> "str", b |-> b]
RlpList(fields) == [k |-> "list", v |-> fields]
RlpUint(bytes) == RlpString(StripZeros(bytes))

\* rlp.DecodeBytes into a uint of w bytes.
RlpDecodeUint(raw, w) ==
    IF raw.k = "str" /\ Len(raw.b) <= w /\ (raw.b = <<>> \/ raw.b[1] # 0)
    THEN [err |-> Nil,
          v |-> [i \in 1..w |->
                   IF i <= w - Len(raw.b) THEN 0
                   ELSE raw.b[i - (w - Len(raw.b))]]]
    ELSE [err |-> ErrDecode, v |-> <<>>]

\* rlp.EncodeToBytes of a request payload, by the payload's Go type.
EncodePayload(t, payload) ==
    CASE t = StateAddCRS ->
           RlpList(<<"crs", payload.Round, payload.CRS>>)
      [] t = StateAddDKGComplaint ->
           RlpList(<<"complaint", payload.ProposerID, payload.Round,
                     payload.PrivateShare>>)
      [] t = StateAddDKGMasterPublicKey ->
           RlpList(<<"mpk", payload.ProposerID, payload.Round,
                     payload.PublicKeyShares>>)
      [] t = StateAddDKGFinal ->
           RlpList(<<"final", payload.ProposerID, payload.Round>>)
      [] t = StateAddNode -> RlpString(payload)
      [] OTHER -> RlpUint(payload)

RlpDecodeList(raw, shape, n) ==
    raw.k = "list" /\ Len(raw.v) = n /\ raw.v[1] = shape

\* State.unpackPayload: the typed payload of a raw request, or an error.
unpackPayload(raw) ==
    LET t == raw.Type
        p == raw.Payload
        bad == [err |-> ErrDecode, v |-> <<>>]
    IN  CASE t = StateAddCRS ->
               IF RlpDecodeList(p, "crs", 3)
               THEN [err |-> Nil, v |-> [Round |-> p.v[2], CRS |-> p.v[3]]]
               ELSE bad
          [] t = StateAddDKGComplaint ->
               IF RlpDecodeList(p, "complaint", 4)
               THEN [err |-> Nil,
                     v |-> Complaint(p.v[2], p.v[3], p.v[4], Fresh)]
               ELSE bad
          [] t = StateAddDKGMasterPublicKey ->
               IF RlpDecodeList(p, "mpk", 4)
               THEN [err |-> Nil,
                     v |-> MasterPublicKey(p.v[2], p.v[3], p.v[4])]
               ELSE bad
          [] t = StateAddDKGFinal ->
               IF RlpDecodeList(p, "final", 3)
               THEN [err |-> Nil, v |-> Finalize(p.v[2], p.v[3])]
               ELSE bad
          [] t \in {StateChangeNumChains, StateChangePhiRatio,
                    StateChangeNotarySetSize, StateChangeDKGSetSize} ->
               RlpDecodeUint(p, 4)
          [] t \in {StateChangeLambdaBA, StateChangeLambdaDKG,
                    StateChangeRoundInterval, StateChangeMinBlockInterval,
                    StateChangeMaxBlockInterval, StateChangeK} ->
               RlpDecodeUint(p, 8)
          [] t = StateAddNode ->
               IF p.k = "str" THEN [err |-> Nil, v |-> p.b] ELSE bad
          [] OTHER -> [err |-> ErrUnknownStateChangeType, v |-> <<>>]

\* cloneDKGComplaint: a round trip through the codec, so a new object.
cloneDKGComplaint(comp) ==
    unpackPayload([Type |-> StateAddDKGComplaint,
                   Payload |-> EncodePayload(StateAddDKGComplaint, comp)]).v

cloneDKGMasterPublicKey(mpk) ==
    unpackPayload([Type |-> StateAddDKGMasterPublicKey,
                   Payload |-> EncodePayload(StateAddDKGMasterPublicKey, mpk)]).v

cloneDKGFinalize(final) ==
    unpackPayload([Type |-> StateAddDKGFinal,
                   Payload |-> EncodePayload(StateAddDKGFinal, final)]).v

\* ------------------------------------------------------------------ State
\* A State by value: every field of the struct but the two locks.
\* NewState(nodePubKeys, lambda, local).
NewState(nodePubKeys, lambda, local) ==
    LET nodes == [id \in {NewNodeID(key) : key \in nodePubKeys} |->
                    CHOOSE key \in nodePubKeys : NewNodeID(key) = id]
        n == Cardinality(DOMAIN nodes)
    IN  [local |-> local,
         numChains |-> Uint32(n),
         lambdaBA |-> lambda,
         lambdaDKG |-> lambda * 10,
         roundInterval |-> lambda * 10000,
         minBlockInterval |-> Millisecond * 1,
         maxBlockInterval |-> lambda * 8,
         crs |-> <<GenesisCRS>>,
         nodes |-> nodes,
         phiRatio |-> F0667,
         k |-> 0,
         notarySetSize |-> Uint32(n),
         dkgSetSize |-> Uint32(n),
         pendingChangedConfigs |-> EmptyMap,
         dkgFinals |-> EmptyMap,
         dkgComplaints |-> EmptyMap,
         dkgMasterPublicKeys |-> EmptyMap,
         pendingNodes |-> <<>>,
         pendingDKGComplaints |-> <<>>,
         pendingDKGFinals |-> <<>>,
         pendingDKGMasterPublicKeys |-> <<>>,
         pendingCRS |-> <<>>]

\* The store of a State: what the state lock guards.
Store(s) ==
    [numChains |-> s.numChains, lambdaBA |-> s.lambdaBA,
     lambdaDKG |-> s.lambdaDKG, k |-> s.k, phiRatio |-> s.phiRatio,
     notarySetSize |-> s.notarySetSize, dkgSetSize |-> s.dkgSetSize,
     roundInterval |-> s.roundInterval,
     minBlockInterval |-> s.minBlockInterval,
     maxBlockInterval |-> s.maxBlockInterval,
     nodes |-> s.nodes, dkgComplaints |-> s.dkgComplaints,
     dkgMasterPublicKeys |-> s.dkgMasterPublicKeys,
     dkgFinals |-> s.dkgFinals, crs |-> s.crs]

\* The pending buffers: what the pending lock guards.
Pending(s) ==
    [pendingChangedConfigs |-> s.pendingChangedConfigs,
     pendingNodes |-> s.pendingNodes,
     pendingDKGComplaints |-> s.pendingDKGComplaints,
     pendingDKGFinals |-> s.pendingDKGFinals,
     pendingDKGMasterPublicKeys |-> s.pendingDKGMasterPublicKeys,
     pendingCRS |-> s.pendingCRS]

\* State.Snapshot: the configuration and the node keys.
Snapshot(s) ==
    [config |-> [NumChains |-> s.numChains, LambdaBA |-> s.lambdaBA,
                 LambdaDKG |-> s.lambdaDKG, K |-> s.k,
                 PhiRatio |-> s.phiRatio,
                 NotarySetSize |-> s.notarySetSize,
                 DKGSetSize |-> s.dkgSetSize,
                 RoundInterval |-> s.roundInterval,
                 MinBlockInterval |-> s.minBlockInterval,
                 MaxBlockInterval |-> s.maxBlockInterval],
     nodes |-> {s.nodes[id] : id \in DOMAIN s.nodes}]

\* State.CRS answering the newest stored CRS for a round not yet stored.
CRSNewestWhenMissing(s, round) ==
    IF round >= Len(s.crs) THEN s.crs[Len(s.crs)] ELSE s.crs[round + 1]

\* State.CRS.
CRS(s, round) == IF round >= Len(s.crs) THEN ZeroHash ELSE s.crs[round + 1]

\* Concat(seqs): the sequences of seqs, one after the other.
RECURSIVE Concat(_)
Concat(seqs) == IF seqs = <<>> THEN <<>> ELSE Head(seqs) \o Concat(Tail(seqs))

\* State.DKGComplaints: clones of the round's complaints, proposer by
\* proposer in the order of the range over the round's map; nil if the
\* round has none.
DKGComplaints(s, round, order) ==
    IF round \notin DOMAIN s.dkgComplaints THEN <<>>
    ELSE Concat([i \in 1..Len(order) |->
                   [j \in 1..Len(s.dkgComplaints[round][order[i]]) |->
                      cloneDKGComplaint(
                        s.dkgComplaints[round][order[i]][j])]])

\* State.DKGMasterPublicKeys: clones of the round's master public keys.
DKGMasterPublicKeys(s, round, order) ==
    IF round \notin DOMAIN s.dkgMasterPublicKeys THEN <<>>
    ELSE [i \in 1..Len(order) |->
            cloneDKGMasterPublicKey(s.dkgMasterPublicKeys[round][order[i]])]

\* State.IsDKGFinal with >= for >.
IsDKGFinalAtLeast(s, round, threshold) ==
    Cardinality(DOMAIN MapGet(s.dkgFinals, round, EmptyMap)) >= threshold

\* State.IsDKGFinal.
IsDKGFinal(s, round, threshold) ==
    Cardinality(DOMAIN MapGet(s.dkgFinals, round, EmptyMap)) > threshold

\* isValidComplaint without the look at dkgFinals.
isValidComplaintNoFinalCheck(s, comp) ==
    LET comps == MapGet(MapGet(s.dkgComplaints, comp.Round, EmptyMap),
                        comp.ProposerID, <<>>)
    IN  IF \E i \in 1..Len(comps) : comps[i].ptr = comp.ptr
        THEN ErrDuplicatedChange
        ELSE Nil

\* The StateAddDKGComplaint case of State.isValidRequest.
isValidComplaint(s, comp) ==
    LET comps == MapGet(MapGet(s.dkgComplaints, comp.Round, EmptyMap),
                        comp.ProposerID, <<>>)
    IN  IF comp.ProposerID \in DOMAIN MapGet(s.dkgFinals, comp.Round, EmptyMap)
        THEN ErrProposerIsFinal
        ELSE IF \E i \in 1..Len(comps) : comps[i].ptr = comp.ptr
             THEN ErrDuplicatedChange
             ELSE Nil

\* isValidCRS with >= for > in its first comparison.
isValidCRSOffByOne(s, crsReq) ==
    IF Len(s.crs) >= crsReq.Round
    THEN IF CRS(s, crsReq.Round) # crsReq.CRS
         THEN ErrForkedCRS
         ELSE ErrDuplicatedChange
    ELSE ErrMissingPreviousCRS

\* The StateAddCRS case of State.isValidRequest.
isValidCRS(s, crsReq) ==
    IF Len(s.crs) > crsReq.Round
    THEN IF s.crs[crsReq.Round + 1] # crsReq.CRS
         THEN ErrForkedCRS
         ELSE ErrDuplicatedChange
    ELSE IF Len(s.crs) = crsReq.Round
         THEN Nil
         ELSE ErrMissingPreviousCRS

\* State.isValidRequest.
isValidRequest(s, req) ==
    CASE req.Type = StateAddDKGComplaint -> isValidComplaint(s, req.Payload)
      [] req.Type = StateAddCRS -> isValidCRS(s, req.Payload)
      [] OTHER -> Nil

\* applyAddCRS storing at index Round: a known round is overwritten.
applyAddCRSOverwrite(s, crsRequest) ==
    IF crsRequest.Round < Len(s.crs)
    THEN [err |-> Nil,
          s |-> [s EXCEPT !.crs[crsRequest.Round + 1] = crsRequest.CRS]]
    ELSE [err |-> Nil, s |-> [s EXCEPT !.crs = Append(@, crsRequest.CRS)]]

\* applyAddCRS without its check of the round.
applyAddCRSNoCheck(s, crsRequest) ==
    [err |-> Nil, s |-> [s EXCEPT !.crs = Append(@, crsRequest.CRS)]]

\* The StateAddCRS case of State.applyRequest.
applyAddCRS(s, crsRequest) ==
    IF crsRequest.Round # Len(s.crs)
    THEN [err |-> ErrDuplicatedChange, s |-> s]
    ELSE [err |-> Nil, s |-> [s EXCEPT !.crs = Append(@, crsRequest.CRS)]]

\* The StateAddDKGComplaint case replacing the proposer's complaints by
\* the new one.
applyAddDKGComplaintReplace(s, comp) ==
    LET forRound == MapGet(s.dkgComplaints, comp.Round, EmptyMap)
    IN  [err |-> Nil,
         s |-> [s EXCEPT !.dkgComplaints =
                  MapPut(@, comp.Round,
                         MapPut(forRound, comp.ProposerID, <<comp>>))]]

\* The StateAddDKGComplaint case of State.applyRequest.
applyAddDKGComplaint(s, comp) ==
    LET forRound == MapGet(s.dkgComplaints, comp.Round, EmptyMap)
    IN  [err |-> Nil,
         s |-> [s EXCEPT !.dkgComplaints =
                  MapPut(@, comp.Round,
                         MapPut(forRound, comp.ProposerID,
                                Append(MapGet(forRound, comp.ProposerID, <<>>),
                                       comp)))]]

\* State.applyRequest: the error and the State it leaves.
applyRequest(s, req) ==
    LET t == req.Type
        p == req.Payload
        ok(s2) == [err |-> Nil, s |-> s2]
    IN  CASE t = StateAddNode ->
              LET parsed == NewPublicKeyFromByteSlice(p)
              IN  IF parsed.err # Nil
                  THEN [err |-> parsed.err, s |-> s]
                  ELSE ok([s EXCEPT !.nodes =
                             MapPut(@, NewNodeID(parsed.key), parsed.key)])
          [] t = StateAddCRS -> applyAddCRS(s, p)
          [] t = StateAddDKGComplaint -> applyAddDKGComplaint(s, p)
          [] t = StateAddDKGMasterPublicKey ->
              LET forRound == MapGet(s.dkgMasterPublicKeys, p.Round, EmptyMap)
              IN  ok([s EXCEPT !.dkgMasterPublicKeys =
                        MapPut(@, p.Round, MapPut(forRound, p.ProposerID, p))])
          [] t = StateAddDKGFinal ->
              LET forRound == MapGet(s.dkgFinals, p.Round, EmptyMap)
              IN  ok([s EXCEPT !.dkgFinals =
                        MapPut(@, p.Round, MapPut(forRound, p.ProposerID, p))])
          [] t = StateChangeNumChains -> ok([s EXCEPT !.numChains = p])
          [] t = StateChangeLambdaBA ->
              ok([s EXCEPT !.lambdaBA = IntOfUint64(p)])
          [] t = StateChangeLambdaDKG ->
              ok([s EXCEPT !.lambdaDKG = IntOfUint64(p)])
          [] t = StateChangeRoundInterval ->
              ok([s EXCEPT !.roundInterval = IntOfUint64(p)])
          [] t = StateChangeMinBlockInterval ->
              ok([s EXCEPT !.minBlockInterval = IntOfUint64(p)])
          [] t = StateChangeMaxBlockInterval ->
              ok([s EXCEPT !.maxBlockInterval = IntOfUint64(p)])
          [] t = StateChangeK -> ok([s EXCEPT !.k = IntOfUint64(p)])
          [] t = StateChangePhiRatio ->
              ok([s EXCEPT !.phiRatio = Float32frombits(p)])
          [] t = StateChangeNotarySetSize ->
              ok([s EXCEPT !.notarySetSize = p])
          [] t = StateChangeDKGSetSize -> ok([s EXCEPT !.dkgSetSize = p])
          [] OTHER -> [err |-> ErrKidding, s |-> s]

\* The loop of State.Apply going on after a request was refused, and
\* returning the first error.
RECURSIVE applyRequestsSkipRefused(_, _)
applyRequestsSkipRefused(s, reqs) ==
    IF reqs = <<>> THEN [err |-> Nil, s |-> s]
    ELSE LET r == applyRequest(s, Head(reqs))
             rest == applyRequestsSkipRefused(r.s, Tail(reqs))
         IN  IF r.err # Nil THEN [err |-> r.err, s |-> rest.s] ELSE rest

\* The loop of State.Apply over the decoded requests: the first error
\* ends it and what was applied before stays.
RECURSIVE applyRequests(_, _)
applyRequests(s, reqs) ==
    IF reqs = <<>> THEN [err |-> Nil, s |-> s]
    ELSE LET r == applyRequest(s, Head(reqs))
         IN  IF r.err # Nil THEN r ELSE applyRequests(r.s, Tail(reqs))

\* The byte stream of a batch: the rlp list of its raw requests.
EncodeBatch(packed) ==
    RlpList([i \in 1..Len(packed) |->
               [Type |-> packed[i].Type,
                Payload |-> EncodePayload(packed[i].Type, packed[i].Payload)]])

\* The decoding half of State.Apply: the requests of the byte stream, or
\* the error of the first raw request that does not unpack.
DecodeBatch(reqsAsBytes) ==
    IF reqsAsBytes.k # "list" THEN [err |-> ErrDecode, reqs |-> <<>>]
    ELSE LET rawReqs == reqsAsBytes.v
             unpacked == [i \in 1..Len(rawReqs) |-> unpackPayload(rawReqs[i])]
             failed == {i \in 1..Len(rawReqs) : unpacked[i].err # Nil}
         IN  IF failed # {}
             THEN [err |-> unpacked[CHOOSE i \in failed :
                                      \A j \in failed : i <= j].err,
                   reqs |-> <<>>]
             ELSE [err |-> Nil,
                   reqs |-> [i \in 1..Len(rawReqs) |->
                               [Type |-> rawReqs[i].Type,
                                Payload |-> unpacked[i].v]]]

\* Apply decoding as it goes: the requests before the first raw request
\* that does not unpack are applied, then its error is returned.
ApplyDecodedPrefix(s, reqsAsBytes) ==
    IF reqsAsBytes.k # "list" THEN [err |-> ErrDecode, s |-> s]
    ELSE LET rawReqs == reqsAsBytes.v
             failed == {i \in 1..Len(rawReqs) :
                          unpackPayload(rawReqs[i]).err # Nil}
             n == IF failed = {} THEN Len(rawReqs)
                  ELSE (CHOOSE i \in failed : \A j \in failed : i <= j) - 1
             r == applyRequests(s, DecodeBatch(RlpList(SubSeq(rawReqs, 1, n))).reqs)
         IN  IF r.err # Nil \/ failed = {} THEN r
             ELSE [err |-> unpackPayload(rawReqs[n + 1]).err, s |-> r.s]

\* Apply doing nothing on a State in local mode.
ApplySkippedWhenLocal(s, reqsAsBytes) ==
    LET decoded == DecodeBatch(reqsAsBytes)
    IN  IF decoded.err # Nil THEN [err |-> decoded.err, s |-> s]
        ELSE IF s.local THEN [err |-> Nil, s |-> s]
        ELSE applyRequests(s, decoded.reqs)

\* State.Apply(reqsAsBytes).
Apply(s, reqsAsBytes) ==
    LET decoded == DecodeBatch(reqsAsBytes)
    IN  IF decoded.err # Nil THEN [err |-> decoded.err, s |-> s]
        ELSE applyRequests(s, decoded.reqs)

TypedRequests(t, payloads) ==
    [i \in 1..Len(payloads) |-> [Type |-> t, Payload |-> payloads[i]]]

\* The requests of a batch with the DKG finals ahead of the complaints.
PackedRequestsFinalsFirst(s, order) ==
    [i \in 1..Len(order) |->
       [Type |-> order[i], Payload |-> s.pendingChangedConfigs[order[i]]]]
    \o TypedRequests(StateAddNode, s.pendingNodes)
    \o TypedRequests(StateAddDKGFinal, s.pendingDKGFinals)
    \o TypedRequests(StateAddDKGComplaint, s.pendingDKGComplaints)
    \o TypedRequests(StateAddDKGMasterPublicKey, s.pendingDKGMasterPublicKeys)
    \o TypedRequests(StateAddCRS, s.pendingCRS)

\* The requests State.PackRequests packs; order is the order in which the
\* range over the pendingChangedConfigs map yields its keys.
PackedRequests(s, order) ==
    [i \in 1..Len(order) |->
       [Type |-> order[i], Payload |-> s.pendingChangedConfigs[order[i]]]]
    \o TypedRequests(StateAddNode, s.pendingNodes)
    \o TypedRequests(StateAddDKGComplaint, s.pendingDKGComplaints)
    \o TypedRequests(StateAddDKGFinal, s.pendingDKGFinals)
    \o TypedRequests(StateAddDKGMasterPublicKey, s.pendingDKGMasterPublicKeys)
    \o TypedRequests(StateAddCRS, s.pendingCRS)

\* PackRequests leaving the pending configuration changes in their map.
PackRequestsNoDrain(s, order) ==
    [b |-> EncodeBatch(PackedRequests(s, order)), s |-> s]

\* PackRequests emptying every pending buffer it has packed.
PackRequestsDrainAll(s, order) ==
    [b |-> EncodeBatch(PackedRequests(s, order)),
     s |-> [s EXCEPT !.pendingChangedConfigs = EmptyMap,
                     !.pendingNodes = <<>>,
                     !.pendingDKGComplaints = <<>>,
                     !.pendingDKGFinals = <<>>,
                     !.pendingDKGMasterPublicKeys = <<>>,
                     !.pendingCRS = <<>>]]

\* State.PackRequests: the bytes and the State it leaves.
PackRequests(s, order) ==
    [b |-> EncodeBatch(PackedRequests(s, order)),
     s |-> [s EXCEPT !.pendingChangedConfigs = EmptyMap]]

\* The orders a range over map m can take: the sequences of its keys.
RangeOrders(m) ==
    {o \in [1..Cardinality(DOMAIN m) -> DOMAIN m] :
       \A i, j \in DOMAIN o : i # j => o[i] # o[j]}

\* "Patch input parameter's type" of State.RequestChange.
PatchPayload(t, payload) ==
    CASE t = StateAddNode -> payload.bytes
      [] t \in {StateChangeLambdaBA, StateChangeLambdaDKG,
                StateChangeRoundInterval, StateChangeMinBlockInterval,
                StateChangeMaxBlockInterval} -> Uint64OfInt(payload)
      [] t = StateChangeK -> Uint64OfInt(payload)
      [] t = StateChangePhiRatio -> Float32bits(payload)
      [] OTHER -> payload

\* AppendPending keeping the first configuration change of a type.
AppendPendingFirstWins(s, t, payload) ==
    CASE t = StateAddNode -> [s EXCEPT !.pendingNodes = Append(@, payload)]
      [] t = StateAddCRS -> [s EXCEPT !.pendingCRS = Append(@, payload)]
      [] t = StateAddDKGComplaint ->
           [s EXCEPT !.pendingDKGComplaints = Append(@, payload)]
      [] t = StateAddDKGMasterPublicKey ->
           [s EXCEPT !.pendingDKGMasterPublicKeys = Append(@, payload)]
      [] t = StateAddDKGFinal ->
           [s EXCEPT !.pendingDKGFinals = Append(@, payload)]
      [] OTHER ->
           IF t \in DOMAIN s.pendingChangedConfigs THEN s
           ELSE [s EXCEPT !.pendingChangedConfigs = MapPut(@, t, payload)]

\* The replicated branch of State.RequestChange: the request joins the
\* pending buffer of its type.
AppendPending(s, t, payload) ==
    CASE t = StateAddNode -> [s EXCEPT !.pendingNodes = Append(@, payload)]
      [] t = StateAddCRS -> [s EXCEPT !.pendingCRS = Append(@, payload)]
      [] t = StateAddDKGComplaint ->
           [s EXCEPT !.pendingDKGComplaints = Append(@, payload)]
      [] t = StateAddDKGMasterPublicKey ->
           [s EXCEPT !.pendingDKGMasterPublicKeys = Append(@, payload)]
      [] t = StateAddDKGFinal ->
           [s EXCEPT !.pendingDKGFinals = Append(@, payload)]
      [] OTHER ->
           [s EXCEPT !.pendingChangedConfigs = MapPut(@, t, payload)]

\* RequestChange appending to the pending buffer before it validates.
RequestChangeAppendFirst(s, t, payload) ==
    LET req == [Type |-> t, Payload |-> PatchPayload(t, payload)]
        err == isValidRequest(s, req)
    IN  IF s.local
        THEN IF err # Nil THEN [err |-> err, s |-> s]
             ELSE applyRequest(s, req)
        ELSE [err |-> err, s |-> AppendPending(s, t, req.Payload)]

\* RequestChange in local mode also keeping the request in its pending
\* buffer.
RequestChangeLocalPends(s, t, payload) ==
    LET req == [Type |-> t, Payload |-> PatchPayload(t, payload)]
        err == isValidRequest(s, req)
    IN  IF err # Nil THEN [err |-> err, s |-> s]
        ELSE IF s.local
        THEN applyRequest(AppendPending(s, t, req.Payload), req)
        ELSE [err |-> Nil, s |-> AppendPending(s, t, req.Payload)]

\* State.RequestChange(t, payload): the error and the State it leaves.
RequestChange(s, t, payload) ==
    LET req == [Type |-> t, Payload |-> PatchPayload(t, payload)]
        err == isValidRequest(s, req)
    IN  IF s.local
        THEN IF err # Nil THEN [err |-> err, s |-> s]
             ELSE applyRequest(s, req)
        ELSE IF err # Nil THEN [err |-> err, s |-> s]
             ELSE [err |-> Nil, s |-> AppendPending(s, t, req.Payload)]

\* State.ProposeCRS(round, crs).
ProposeCRS(s, round, crs) ==
    RequestChange(s, StateAddCRS, [Round |-> round, CRS |-> crs])

MapSeq(f(_), seq) == [i \in 1..Len(seq) |-> f(seq[i])]

\* State.Clone: the copied State, every DKG record through the codec.
Clone(s) ==
    [numChains |-> s.numChains,
     lambdaBA |-> s.lambdaBA,
     lambdaDKG |-> s.lambdaDKG,
     k |-> s.k,
     phiRatio |-> s.phiRatio,
     notarySetSize |-> s.notarySetSize,
     dkgSetSize |-> s.dkgSetSize,
     roundInterval |-> s.roundInterval,
     minBlockInterval |-> s.minBlockInterval,
     maxBlockInterval |-> s.maxBlockInterval,
     local |-> s.local,
     nodes |-> [id \in DOMAIN s.nodes |-> s.nodes[id]],
     dkgComplaints |->
       [r \in DOMAIN s.dkgComplaints |->
          [id \in DOMAIN s.dkgComplaints[r] |->
             MapSeq(cloneDKGComplaint, s.dkgComplaints[r][id])]],
     dkgMasterPublicKeys |->
       [r \in DOMAIN s.dkgMasterPublicKeys |->
          [id \in DOMAIN s.dkgMasterPublicKeys[r] |->
             cloneDKGMasterPublicKey(s.dkgMasterPublicKeys[r][id])]],
     dkgFinals |->
       [r \in DOMAIN s.dkgFinals |->
          [id \in DOMAIN s.dkgFinals[r] |->
             cloneDKGFinalize(s.dkgFinals[r][id])]],
     crs |-> [i \in 1..Len(s.crs) |-> s.crs[i]],
     pendingChangedConfigs |->
       [t \in DOMAIN s.pendingChangedConfigs |-> s.pendingChangedConfigs[t]],
     pendingNodes |-> [i \in 1..Len(s.pendingNodes) |-> s.pendingNodes[i]],
     pendingDKGComplaints |->
       MapSeq(cloneDKGComplaint, s.pendingDKGComplaints),
     pendingDKGFinals |-> MapSeq(cloneDKGFinalize, s.pendingDKGFinals),
     pendingDKGMasterPublicKeys |->
       MapSeq(cloneDKGMasterPublicKey, s.pendingDKGMasterPublicKeys),
     pendingCRS |->
       [i \in 1..Len(s.pendingCRS) |->
          [Round |-> s.pendingCRS[i].Round, CRS |-> s.pendingCRS[i].CRS]]]

\* Two complaint sequences compared as State.Equal compares them.
ComplaintsEqual(a, b) ==
    /\ Len(a) = Len(b)
    /\ \A i \in 1..Len(a) : ComplaintEqual(a[i], b[i])

\* One DKG table of s against other's: same rounds, same proposers,
\* and eq on what each proposer has.
DKGTableEqual(a, b, eq(_, _)) ==
    /\ Cardinality(DOMAIN a) = Cardinality(DOMAIN b)
    /\ \A r \in DOMAIN a :
         /\ r \in DOMAIN b
         /\ Cardinality(DOMAIN a[r]) = Cardinality(DOMAIN b[r])
         /\ \A id \in DOMAIN a[r] :
              id \in DOMAIN b[r] /\ eq(a[r][id], b[r][id])

RecordEqual(a, b) == a = b

\* State.Equal(other): nil, or the error of the first part that differs.
Equal(s, other) ==
    IF ~(/\ s.numChains = other.numChains
         /\ s.lambdaBA = other.lambdaBA
         /\ s.lambdaDKG = other.lambdaDKG
         /\ s.k = other.k
         /\ FloatEq(s.phiRatio, other.phiRatio)
         /\ s.notarySetSize = other.notarySetSize
         /\ s.dkgSetSize = other.dkgSetSize
         /\ s.roundInterval = other.roundInterval
         /\ s.minBlockInterval = other.minBlockInterval
         /\ s.maxBlockInterval = other.maxBlockInterval)
    THEN ErrStateConfigNotEqual
    ELSE IF s.local # other.local THEN ErrStateLocalFlagNotEqual
    ELSE IF ~(/\ Cardinality(DOMAIN s.nodes) = Cardinality(DOMAIN other.nodes)
              /\ \A id \in DOMAIN s.nodes :
                   /\ id \in DOMAIN other.nodes
                   /\ s.nodes[id].bytes = other.nodes[id].bytes)
    THEN ErrStateNodeSetNotEqual
    ELSE IF ~DKGTableEqual(s.dkgComplaints, other.dkgComplaints,
                           ComplaintsEqual)
    THEN ErrStateDKGComplaintsNotEqual
    ELSE IF ~DKGTableEqual(s.dkgMasterPublicKeys, other.dkgMasterPublicKeys,
                           RecordEqual)
    THEN ErrStateDKGMasterPublicKeysNotEqual
    ELSE IF ~DKGTableEqual(s.dkgFinals, other.dkgFinals, RecordEqual)
    THEN ErrStateDKGFinalsNotEqual
    ELSE IF ~(/\ Len(s.crs) = Len(other.crs)
              /\ \A i \in 1..Len(s.crs) : s.crs[i] = other.crs[i])
    THEN ErrStateCRSsNotEqual
    ELSE IF ~(/\ s.pendingChangedConfigs = other.pendingChangedConfigs
              /\ s.pendingCRS = other.pendingCRS
              /\ s.pendingNodes = other.pendingNodes
              /\ ComplaintsEqual(s.pendingDKGComplaints,
                                 other.pendingDKGComplaints)
              /\ s.pendingDKGFinals = other.pendingDKGFinals
              /\ s.pendingDKGMasterPublicKeys =
                   other.pendingDKGMasterPublicKeys)
    THEN ErrStatePendingChangesNotEqual
    ELSE Nil

\* ------------------------------------------------------------- the system
\* The two State instances and the fields of a State that are Go maps.
Inst == {1, 2}
MapFields == {"nodes", "dkgComplaints", "dkgMasterPublicKeys", "dkgFinals",
              "pendingChangedConfigs"}

\* Threads of SpecLock, all calling into State 1.
NumThreads == 3
Threads == 1..NumThreads

VARIABLES
    obj,         \* obj[i]: State i, each map field holding the heap cell it refers to
    heap,        \* heap[c]: the maps of cell c
    wire,        \* the bytes last produced by PackRequests
    wireBy,      \* the State that packed them, 0 before the first PackRequests
    ret,         \* the last call and what it returned
    nops,        \* calls made so far
    hist,        \* hist[i]: per config type, the accepted RequestChange calls
                 \* on replicated State i since its last PackRequests
    thr,         \* thr[t]: where thread t is in its call, and the call's locals
    stateLock,   \* State 1's lock (sync.RWMutex)
    pendingLock  \* State 1's pendingChangesLock (sync.Mutex): its holder, or 0

data == <<obj, heap, wire, wireBy, ret, nops, hist>>
locks == <<thr, stateLock, pendingLock>>
vars == <<obj, heap, wire, wireBy, ret, nops, hist, thr, stateLock, pendingLock>>

\* The State whose field f is get(f).
StateOf(get(_)) ==
    [numChains |-> get("numChains"),
     lambdaBA |-> get("lambdaBA"),
     lambdaDKG |-> get("lambdaDKG"),
     k |-> get("k"),
     phiRatio |-> get("phiRatio"),
     notarySetSize |-> get("notarySetSize"),
     dkgSetSize |-> get("dkgSetSize"),
     roundInterval |-> get("roundInterval"),
     minBlockInterval |-> get("minBlockInterval"),
     maxBlockInterval |-> get("maxBlockInterval"),
     nodes |-> get("nodes"),
     dkgComplaints |-> get("dkgComplaints"),
     dkgMasterPublicKeys |-> get("dkgMasterPublicKeys"),
     dkgFinals |-> get("dkgFinals"),
     crs |-> get("crs"),
     local |-> get("local"),
     pendingChangedConfigs |-> get("pendingChangedConfigs"),
     pendingNodes |-> get("pendingNodes"),
     pendingDKGComplaints |-> get("pendingDKGComplaints"),
     pendingDKGFinals |-> get("pendingDKGFinals"),
     pendingDKGMasterPublicKeys |-> get("pendingDKGMasterPublicKeys"),
     pendingCRS |-> get("pendingCRS")]

\* The heap cell whose map f is get(f).
MapsOf(get(_)) ==
    [nodes |-> get("nodes"),
     dkgComplaints |-> get("dkgComplaints"),
     dkgMasterPublicKeys |-> get("dkgMasterPublicKeys"),
     dkgFinals |-> get("dkgFinals"),
     pendingChangedConfigs |-> get("pendingChangedConfigs")]

\* State i by value in objects o and heap h: its map fields read through
\* the heap.
ViewIn(o, h, i) ==
    LET get(f) == IF f \in MapFields THEN h[o[i][f]][f] ELSE o[i][f]
    IN  StateOf(get)

\* State i now, and State i after the step.
View(i) == ViewIn(obj, heap, i)
ViewNext(i) == ViewIn(obj', heap', i)

\* The heap after State i's fields become those of v: a write to a map
\* lands in the cell State i refers to; a map in fresh is newly made.
HeapAfter(i, v, fresh) ==
    LET cell(c) ==
          LET get(f) ==
                IF f \in fresh
                THEN IF c = i THEN v[f] ELSE heap[c][f]
                ELSE IF obj[i][f] = c THEN v[f] ELSE heap[c][f]
          IN  MapsOf(get)
    IN  <<cell(1), cell(2)>>

ObjAfter(i, v, fresh) ==
    LET get(f) ==
          IF f \in MapFields
          THEN IF f \in fresh THEN i ELSE obj[i][f]
          ELSE v[f]
    IN  [obj EXCEPT ![i] = StateOf(get)]

\* Nanoseconds of the lambda the States are constructed with.
Lambda == 2

NoArg == [t |-> StateChangeNothing, payload |-> <<>>]

Idle == [pc |-> "idle"]

\* The sequence of n times v.
RECURSIVE Repeat(_, _)
Repeat(v, n) == IF n = 0 THEN <<>> ELSE Append(Repeat(v, n - 1), v)
UnlockedRW == [wr |-> 0, held |-> FALSE, readers |-> {}, rwait |-> {}]

InitData(locals) ==
    /\ \E local \in locals :
         LET new(i) == NewState(GenesisKeys, Lambda, local[i])
             object(i) ==
               LET get(f) == IF f \in MapFields THEN i ELSE new(i)[f]
               IN  StateOf(get)
             cell(i) == LET get(f) == new(i)[f] IN MapsOf(get)
         IN  /\ obj = <<object(1), object(2)>>
             /\ heap = <<cell(1), cell(2)>>
    /\ wire = RlpString(<<>>)
    /\ wireBy = 0
    /\ ret = [op |-> "NewState", inst |-> 0, err |-> Nil, arg |-> NoArg]
    /\ nops = 0
    /\ hist = <<EmptyMap, EmptyMap>>

InitLocks ==
    /\ thr = Repeat(Idle, NumThreads)
    /\ stateLock = UnlockedRW
    /\ pendingLock = 0

Init == InitData([Inst -> BOOLEAN]) /\ InitLocks

\* ------------------------------------------------------------ the callers
\* Caller-held Complaint objects: 1 and 2 are two objects of equal content.
ProposerOf(o) ==
    NewNodeID([bytes |-> KeyBytes(1 + (((o - 1) \div 2) % 2))])
ComplaintObj(o) == Complaint(ProposerOf(o), 1, "share", o)

DKGInputs ==
    {[t |-> StateAddDKGComplaint, payload |-> ComplaintObj(o)] :
       o \in 1..NumComplaintObjs}
    \cup {[t |-> StateAddDKGFinal, payload |-> Finalize(p, 1)] :
            p \in Proposers}

CRSInputs == {GenesisCRS, "h1"}

\* The requests of SpecCfg: configuration changes, a new node and master
\* public keys.
ConfigTypes == StateChangeNumChains..StateChangeDKGSetSize

ConfigInputs ==
    {[t |-> StateChangeNumChains, payload |-> Uint32(5)],
     [t |-> StateChangeNumChains, payload |-> Uint32(7)],
     [t |-> StateChangePhiRatio, payload |-> F0333],
     [t |-> StateChangePhiRatio, payload |-> FNaN],
     [t |-> StateChangeK, payload |-> -1],
     [t |-> StateChangeLambdaBA, payload |-> 3],
     [t |-> StateAddNode, payload |-> [bytes |-> KeyBytes(3)]]}
    \cup {[t |-> StateAddDKGMasterPublicKey,
           payload |-> MasterPublicKey(p, 1, shares)] :
            p \in {NewNodeID([bytes |-> KeyBytes(1)])},
            shares \in {"sharesA", "sharesB"}}

\* ------------------------------------------------------------- the calls
Called(op, i, err, arg) ==
    /\ nops' = nops + 1
    /\ ret' = [op |-> op, inst |-> i, err |-> err, arg |-> arg]

\* What hist keeps of a config type: the payload of the last accepted
\* RequestChange, how many were accepted, and the payload before the last.
NoHist == [payload |-> <<>>, n |-> 0, prev |-> <<>>]

HistAfter(i, in, err) ==
    IF err = Nil /\ in.t \in ConfigTypes /\ ~View(i).local
    THEN [hist EXCEPT ![i] =
            MapPut(@, in.t,
                   [payload |-> in.payload,
                    n |-> MapGet(@, in.t, NoHist).n + 1,
                    prev |-> MapGet(@, in.t, NoHist).payload])]
    ELSE hist

RequestChangeCall(i, inputs) ==
    /\ nops < MaxOps
    /\ \E in \in inputs :
         LET r == RequestChange(View(i), in.t, in.payload)
         IN  /\ obj' = ObjAfter(i, r.s, {})
             /\ heap' = HeapAfter(i, r.s, {})
             /\ hist' = HistAfter(i, in, r.err)
             /\ Called("RequestChange", i, r.err, in)
             /\ UNCHANGED <<wire, wireBy>>
    /\ UNCHANGED locks

DoRequestChange(i) == RequestChangeCall(i, DKGInputs)

DoRequestConfig(i) == RequestChangeCall(i, ConfigInputs)

DoProposeCRS(i) ==
    /\ nops < MaxOps
    /\ \E round \in 0..MaxRound, crs \in CRSInputs :
         LET r == ProposeCRS(View(i), round, crs)
         IN  /\ obj' = ObjAfter(i, r.s, {})
             /\ heap' = HeapAfter(i, r.s, {})
             /\ Called("ProposeCRS", i, r.err,
                       [t |-> StateAddCRS,
                        payload |-> [Round |-> round, CRS |-> crs]])
             /\ UNCHANGED <<wire, wireBy, hist>>
    /\ UNCHANGED locks

DoPackRequests(i) ==
    /\ nops < MaxOps
    /\ \E order \in RangeOrders(View(i).pendingChangedConfigs) :
         LET r == PackRequests(View(i), order)
         IN  /\ obj' = ObjAfter(i, r.s, {"pendingChangedConfigs"})
             /\ heap' = HeapAfter(i, r.s, {"pendingChangedConfigs"})
             /\ wire' = r.b
             /\ wireBy' = i
             /\ hist' = [hist EXCEPT ![i] = EmptyMap]
             /\ Called("PackRequests", i, Nil,
                       [t |-> StateChangeNothing, payload |-> hist[i]])
    /\ UNCHANGED locks

DoApply(i) ==
    /\ nops < MaxOps
    /\ LET r == Apply(View(i), wire)
       IN  /\ obj' = ObjAfter(i, r.s, {})
           /\ heap' = HeapAfter(i, r.s, {})
           /\ Called("Apply", i, r.err, NoArg)
           /\ UNCHANGED <<wire, wireBy, hist>>
    /\ UNCHANGED locks

\* copied = s.Clone(): State 2 becomes the clone of State 1, all its maps
\* newly made.
CloneFresh == MapFields

DoClone ==
    /\ nops < MaxOps
    /\ obj' = ObjAfter(2, Clone(View(1)), CloneFresh)
    /\ heap' = HeapAfter(2, Clone(View(1)), CloneFresh)
    /\ hist' = [hist EXCEPT ![2] = hist[1]]
    /\ Called("Clone", 1, Nil, NoArg)
    /\ UNCHANGED <<wire, wireBy>>
    /\ UNCHANGED locks

Next ==
    \/ \E i \in Inst : DoRequestChange(i)
    \/ \E i \in Inst : DoProposeCRS(i)
    \/ \E i \in Inst : DoPackRequests(i)
    \/ \E i \in Inst : DoApply(i)
    \/ DoClone

Spec == Init /\ [][Next]_vars

NextCfg ==
    \/ \E i \in Inst : DoRequestConfig(i)
    \/ \E i \in Inst : DoPackRequests(i)
    \/ \E i \in Inst : DoApply(i)
    \/ DoClone

SpecCfg == Init /\ [][NextCfg]_vars

\* ------------------------------------------------- the calls, by threads
\* The methods that read the store under the read lock.
Accessors ==
    {"Snapshot", "CRS", "DKGComplaints", "DKGMasterPublicKeys", "IsDKGFinal"}

\* Apply without s.lock.Lock() and its deferred Unlock.
ProgramApplyNoLock(op, local) ==
    CASE op \in {"RequestChange", "ProposeCRS"} ->
           IF local
           THEN <<"Lock", "validateApply", "Unlock">>
           ELSE <<"RLock", "validate", "PLock", "append",
                  "PUnlock", "RUnlock">>
      [] op = "PackRequests" ->
           <<"PLock", "drain", "RLock", "pack", "RUnlock", "PUnlock">>
      [] op = "Apply" -> <<"decode", "apply">>
      [] op \in Accessors -> <<"RLock", "read", "RUnlock">>

\* RequestChange in replicated mode taking s.lock.Lock() for its check.
ProgramRequestChangeLocked(op, local) ==
    CASE op \in {"RequestChange", "ProposeCRS"} ->
           IF local
           THEN <<"Lock", "validateApply", "Unlock">>
           ELSE <<"Lock", "validate", "PLock", "append", "PUnlock", "Unlock">>
      [] op = "PackRequests" ->
           <<"PLock", "drain", "RLock", "pack", "RUnlock", "PUnlock">>
      [] op = "Apply" -> <<"decode", "Lock", "apply", "Unlock">>
      [] op \in Accessors -> <<"RLock", "read", "RUnlock">>

\* Threads call into State 1 concurrently. A call is the sequence of its
\* lock operations and of the code between them, in the order the
\* function runs them, deferred unlocks last.
Program(op, local) ==
    CASE op \in {"RequestChange", "ProposeCRS"} ->
           IF local
           THEN <<"Lock", "validateApply", "Unlock">>
           ELSE <<"RLock", "validate", "PLock", "append",
                  "PUnlock", "RUnlock">>
      [] op = "PackRequests" ->
           <<"PLock", "drain", "RLock", "pack", "RUnlock", "PUnlock">>
      [] op = "Apply" -> <<"decode", "Lock", "apply", "Unlock">>
      [] op \in Accessors -> <<"RLock", "read", "RUnlock">>
      [] op \in {"Clone", "Equal"} -> <<"readAll">>

Running(op, arg, prog) ==
    [pc |-> "run", op |-> op, arg |-> arg, prog |-> prog, err |-> Nil,
     val |-> <<>>]

\* The step thread t is at, "none" for an idle thread or a finished call.
StepOf(t) ==
    IF thr[t].pc = "run" /\ thr[t].prog # <<>> THEN Head(thr[t].prog)
    ELSE "none"

\* thr after thread t has done its step, with its locals changed to loc.
Done(t, loc) == [thr EXCEPT ![t] = [loc EXCEPT !.prog = Tail(@)]]

LockInputs ==
    {[t |-> StateChangeNumChains, payload |-> Uint32(5)],
     [t |-> StateAddDKGFinal,
      payload |-> Finalize(NewNodeID([bytes |-> KeyBytes(1)]), 1)],
     [t |-> StateAddDKGComplaint, payload |-> ComplaintObj(1)]}

LockCalls ==
    {[op |-> "RequestChange", arg |-> in] : in \in LockInputs}
    \cup {[op |-> "PackRequests", arg |-> NoArg],
          [op |-> "Apply", arg |-> NoArg],
          [op |-> "CRS",
           arg |-> [t |-> StateChangeNothing, payload |-> [Round |-> 0]]]}

\* Thread t calls a method of State 1.
LCall(t) ==
    /\ nops < MaxOps
    /\ thr[t] = Idle
    /\ \E c \in LockCalls :
         thr' = [thr EXCEPT ![t] =
                   Running(c.op, c.arg, Program(c.op, View(1).local))]
    /\ nops' = nops + 1
    /\ UNCHANGED <<obj, heap, wire, wireBy, ret, hist, stateLock, pendingLock>>

\* s.lock.RLock(): taken unless a writer holds the lock or waits for it;
\* then the reader waits until that writer unlocks.
LRLock(t) ==
    /\ StepOf(t) = "RLock"
    /\ IF stateLock.wr = 0
       THEN /\ stateLock' = [stateLock EXCEPT !.readers = @ \cup {t}]
            /\ thr' = Done(t, thr[t])
       ELSE /\ stateLock' = [stateLock EXCEPT !.rwait = @ \cup {t}]
            /\ thr' = [thr EXCEPT ![t].prog = <<"RWait">> \o Tail(@)]
    /\ UNCHANGED <<data, pendingLock>>

\* A waiting reader holds the lock once the writer's Unlock let it in.
LRWait(t) ==
    /\ StepOf(t) = "RWait"
    /\ t \in stateLock.readers
    /\ thr' = Done(t, thr[t])
    /\ UNCHANGED <<data, stateLock, pendingLock>>

LRUnlock(t) ==
    /\ StepOf(t) = "RUnlock"
    /\ stateLock' = [stateLock EXCEPT !.readers = @ \ {t}]
    /\ thr' = Done(t, thr[t])
    /\ UNCHANGED <<data, pendingLock>>

\* s.lock.Lock(): the writer announces itself, which keeps new readers
\* out, and holds the lock once the readers that hold it have left.
LLock(t) ==
    /\ StepOf(t) = "Lock"
    /\ stateLock.wr = 0
    /\ IF stateLock.readers = {}
       THEN /\ stateLock' = [stateLock EXCEPT !.wr = t, !.held = TRUE]
            /\ thr' = Done(t, thr[t])
       ELSE /\ stateLock' = [stateLock EXCEPT !.wr = t]
            /\ thr' = [thr EXCEPT ![t].prog = <<"LockWait">> \o Tail(@)]
    /\ UNCHANGED <<data, pendingLock>>

LLockWait(t) ==
    /\ StepOf(t) = "LockWait"
    /\ stateLock.readers = {}
    /\ stateLock' = [stateLock EXCEPT !.held = TRUE]
    /\ thr' = Done(t, thr[t])
    /\ UNCHANGED <<data, pendingLock>>

\* s.lock.Unlock(): the readers that waited for this writer are let in.
LUnlock(t) ==
    /\ StepOf(t) = "Unlock"
    /\ stateLock' = [wr |-> 0, held |-> FALSE, readers |-> stateLock.rwait,
                     rwait |-> {}]
    /\ thr' = Done(t, thr[t])
    /\ UNCHANGED <<data, pendingLock>>

LPLock(t) ==
    /\ StepOf(t) = "PLock"
    /\ pendingLock = 0
    /\ pendingLock' = t
    /\ thr' = Done(t, thr[t])
    /\ UNCHANGED <<data, stateLock>>

LPUnlock(t) ==
    /\ StepOf(t) = "PUnlock"
    /\ pendingLock' = 0
    /\ thr' = Done(t, thr[t])
    /\ UNCHANGED <<data, stateLock>>

RequestOf(arg) == [Type |-> arg.t, Payload |-> PatchPayload(arg.t, arg.payload)]

\* RequestChange, replicated: isValidRequest under the read lock; an error
\* returns through the deferred RUnlock.
LValidate(t) ==
    /\ StepOf(t) = "validate"
    /\ LET err == isValidRequest(View(1), RequestOf(thr[t].arg))
       IN  thr' = IF err # Nil
                  THEN [thr EXCEPT ![t].err = err, ![t].prog = <<"RUnlock">>]
                  ELSE Done(t, thr[t])
    /\ UNCHANGED <<data, stateLock, pendingLock>>

\* RequestChange, replicated: the request joins its pending buffer.
LAppend(t) ==
    /\ StepOf(t) = "append"
    /\ LET req == RequestOf(thr[t].arg)
           s2 == AppendPending(View(1), req.Type, req.Payload)
       IN  /\ obj' = ObjAfter(1, s2, {})
           /\ heap' = HeapAfter(1, s2, {})
           /\ hist' = HistAfter(1, thr[t].arg, Nil)
    /\ thr' = Done(t, thr[t])
    /\ UNCHANGED <<wire, wireBy, ret, nops, stateLock, pendingLock>>

\* RequestChange, local: isValidRequest and applyRequest under the lock.
LValidateApply(t) ==
    /\ StepOf(t) = "validateApply"
    /\ LET req == RequestOf(thr[t].arg)
           err == isValidRequest(View(1), req)
           r == IF err # Nil THEN [err |-> err, s |-> View(1)]
                ELSE applyRequest(View(1), req)
       IN  /\ obj' = ObjAfter(1, r.s, {})
           /\ heap' = HeapAfter(1, r.s, {})
           /\ thr' = Done(t, [thr[t] EXCEPT !.err = r.err])
    /\ UNCHANGED <<wire, wireBy, ret, nops, hist, stateLock, pendingLock>>

\* PackRequests: the pending configuration changes are packed and their
\* map replaced by a new one, before the read lock is asked for.
LDrain(t) ==
    /\ StepOf(t) = "drain"
    /\ \E order \in RangeOrders(View(1).pendingChangedConfigs) :
         LET s2 == PackRequests(View(1), order).s
         IN  /\ obj' = ObjAfter(1, s2, {"pendingChangedConfigs"})
             /\ heap' = HeapAfter(1, s2, {"pendingChangedConfigs"})
             /\ thr' = Done(t, [thr[t] EXCEPT !.val =
                          SubSeq(PackedRequests(View(1), order),
                                 1, Len(order))])
    /\ hist' = [hist EXCEPT ![1] = EmptyMap]
    /\ UNCHANGED <<wire, wireBy, ret, nops, stateLock, pendingLock>>

\* PackRequests: the other pending requests are packed and all encoded.
LPack(t) ==
    /\ StepOf(t) = "pack"
    /\ wire' = EncodeBatch(thr[t].val \o PackedRequests(View(1), <<>>))
    /\ wireBy' = 1
    /\ thr' = Done(t, thr[t])
    /\ UNCHANGED <<obj, heap, ret, nops, hist, stateLock, pendingLock>>

\* The bytes an Apply call was given: those of its argument, or the bytes
\* on the wire.
BytesOf(arg) == IF arg = NoArg THEN wire ELSE arg.payload

\* Apply: the bytes are decoded before the lock is asked for; an error
\* returns at once.
LDecode(t) ==
    /\ StepOf(t) = "decode"
    /\ LET d == DecodeBatch(BytesOf(thr[t].arg))
       IN  thr' = IF d.err # Nil
                  THEN [thr EXCEPT ![t].err = d.err, ![t].prog = <<>>]
                  ELSE Done(t, [thr[t] EXCEPT !.val = d.reqs])
    /\ UNCHANGED <<data, stateLock, pendingLock>>

\* Apply: one turn of the loop over the decoded requests, under the lock.
\* val holds the requests not yet applied; an error ends the loop and
\* returns through the deferred Unlock.
LApply(t) ==
    /\ StepOf(t) = "apply"
    /\ IF thr[t].val = <<>>
       THEN /\ thr' = Done(t, thr[t])
            /\ UNCHANGED <<obj, heap>>
       ELSE LET r == applyRequest(View(1), Head(thr[t].val))
            IN  /\ obj' = ObjAfter(1, r.s, {})
                /\ heap' = HeapAfter(1, r.s, {})
                /\ thr' = IF r.err # Nil
                          THEN Done(t, [thr[t] EXCEPT !.err = r.err])
                          ELSE IF Tail(thr[t].val) = <<>>
                          THEN Done(t, [thr[t] EXCEPT !.val = <<>>])
                          ELSE [thr EXCEPT ![t].val = Tail(@)]
    /\ UNCHANGED <<wire, wireBy, ret, nops, hist, stateLock, pendingLock>>

\* What an accessor returns on State s; order is the order in which the
\* range over the round's map yields its proposers.
ReadOf(s, op, arg, order) ==
    CASE op = "Snapshot" -> Snapshot(s)
      [] op = "CRS" -> CRS(s, arg.Round)
      [] op = "DKGComplaints" -> DKGComplaints(s, arg.Round, order)
      [] op = "DKGMasterPublicKeys" ->
           DKGMasterPublicKeys(s, arg.Round, order)
      [] op = "IsDKGFinal" -> IsDKGFinal(s, arg.Round, arg.Threshold)

\* The map an accessor ranges over, if it does.
RangedMap(s, op, arg) ==
    CASE op = "DKGComplaints" -> MapGet(s.dkgComplaints, arg.Round, EmptyMap)
      [] op = "DKGMasterPublicKeys" ->
           MapGet(s.dkgMasterPublicKeys, arg.Round, EmptyMap)
      [] OTHER -> EmptyMap

\* The body of an accessor, under the read lock.
LRead(t) ==
    /\ StepOf(t) = "read"
    /\ \E order \in RangeOrders(RangedMap(View(1), thr[t].op,
                                           thr[t].arg.payload)) :
         thr' = Done(t, [thr[t] EXCEPT !.val =
                           ReadOf(View(1), thr[t].op, thr[t].arg.payload,
                                  order)])
    /\ UNCHANGED <<data, stateLock, pendingLock>>

\* The call returns.
LReturn(t) ==
    /\ thr[t].pc = "run"
    /\ thr[t].prog = <<>>
    /\ ret' = [op |-> thr[t].op, inst |-> 1, err |-> thr[t].err,
               arg |-> thr[t].arg]
    /\ thr' = [thr EXCEPT ![t] = Idle]
    /\ UNCHANGED <<obj, heap, wire, wireBy, nops, hist, stateLock, pendingLock>>

NextLock ==
    \E t \in Threads :
      \/ LCall(t)
      \/ LRLock(t)
      \/ LRWait(t)
      \/ LRUnlock(t)
      \/ LLock(t)
      \/ LLockWait(t)
      \/ LUnlock(t)
      \/ LPLock(t)
      \/ LPUnlock(t)
      \/ LValidate(t)
      \/ LAppend(t)
      \/ LValidateApply(t)
      \/ LDrain(t)
      \/ LPack(t)
      \/ LDecode(t)
      \/ LApply(t)
      \/ LRead(t)
      \/ LReturn(t)

\* State 1 in either mode; State 2 takes no part.
InitLock == InitData({l \in [Inst -> BOOLEAN] : ~l[2]}) /\ InitLocks

SpecLock == InitLock /\ [][NextLock]_vars

\* ------------------------------------------------- delivered byte streams
\* Byte streams that reach State.Apply from outside: batches of valid
\* requests, batches with a request applyRequest refuses after one it
\* applies, and streams that do not decode: not a list, a raw request of
\* type 0 or of a type past the last one, or a payload that does not
\* unpack, each after a valid raw request.
DeliveredBytes ==
    LET final == [Type |-> StateAddDKGFinal,
                  Payload |-> Finalize(NewNodeID([bytes |-> KeyBytes(1)]), 1)]
        crs == [Type |-> StateAddCRS, Payload |-> [Round |-> 1, CRS |-> "h1"]]
        badNode == [Type |-> StateAddNode, Payload |-> BadKeyBytes]
        raw == EncodeBatch(<<final>>).v
        after(t, payload) ==
            RlpList(raw \o <<[Type |-> t, Payload |-> payload]>>
                        \o EncodeBatch(<<crs>>).v)
    IN  {EncodeBatch(<<final, crs>>),
         EncodeBatch(<<final, badNode, crs>>),
         EncodeBatch(<<crs, crs, final>>),
         RlpString(<<1>>),
         after(StateChangeNothing, RlpString(<<>>)),
         after(StateAddNode + 1, RlpString(<<>>)),
         after(StateAddCRS, RlpString(<<1>>)),
         after(StateChangeNumChains, RlpString(<<1, 0, 0, 0, 0>>))}

\* s.Apply(b) of bytes b delivered from outside.
DoApplyDelivered(i) ==
    /\ nops < MaxOps
    /\ \E b \in DeliveredBytes :
         LET r == Apply(View(i), b)
         IN  /\ obj' = ObjAfter(i, r.s, {})
             /\ heap' = HeapAfter(i, r.s, {})
             /\ wire' = b
             /\ wireBy' = 0
             /\ Called("Apply", i, r.err, NoArg)
             /\ UNCHANGED hist
    /\ UNCHANGED locks

\* The calls are on State 1, in either mode.
NextWire ==
    \/ DoRequestChange(1)
    \/ DoProposeCRS(1)
    \/ DoApplyDelivered(1)

SpecWire == InitLock /\ [][NextWire]_vars

\* ------------------------------------------- readers against Apply
\* Batches delivered to State 1: three requests that apply, and three of
\* which the second is refused by applyRequest.
DeliveredBatches ==
    LET final == [Type |-> StateAddDKGFinal,
                  Payload |-> Finalize(NewNodeID([bytes |-> KeyBytes(1)]), 1)]
        crs == [Type |-> StateAddCRS, Payload |-> [Round |-> 1, CRS |-> "h1"]]
        chains == [Type |-> StateChangeNumChains, Payload |-> Uint32(5)]
    IN  {EncodeBatch(<<chains, final, crs>>), EncodeBatch(<<crs, crs, final>>)}

AtomicCalls ==
    {[op |-> "Apply", arg |-> [t |-> StateChangeNothing, payload |-> b]] :
       b \in DeliveredBatches}
    \cup {[op |-> "Snapshot", arg |-> NoArg]}
    \cup {[op |-> op,
           arg |-> [t |-> StateChangeNothing, payload |-> [Round |-> 1]]] :
            op \in {"CRS", "DKGComplaints", "DKGMasterPublicKeys"}}
    \cup {[op |-> "IsDKGFinal",
           arg |-> [t |-> StateChangeNothing,
                    payload |-> [Round |-> 1, Threshold |-> 0]]]}

\* Thread t makes one of the calls on State 1.
LCallFrom(t, calls) ==
    /\ nops < MaxOps
    /\ thr[t] = Idle
    /\ \E c \in calls :
         thr' = [thr EXCEPT ![t] =
                   Running(c.op, c.arg, Program(c.op, View(1).local))]
    /\ nops' = nops + 1
    /\ UNCHANGED <<obj, heap, wire, wireBy, ret, hist, stateLock, pendingLock>>

\* Thread t calls Apply or an accessor of State 1.
LCallAtomic(t) == LCallFrom(t, AtomicCalls)

NextAtomic ==
    \E t \in Threads :
      \/ LCallAtomic(t)
      \/ LRLock(t)
      \/ LRWait(t)
      \/ LRUnlock(t)
      \/ LLock(t)
      \/ LLockWait(t)
      \/ LUnlock(t)
      \/ LDecode(t)
      \/ LApply(t)
      \/ LRead(t)
      \/ LReturn(t)

\* Both States replicated: Apply and the accessors do not read s.local.
InitAtomic == InitData({l \in [Inst -> BOOLEAN] : ~l[1] /\ ~l[2]}) /\ InitLocks

SpecAtomic == InitAtomic /\ [][NextAtomic]_vars

\* ------------------------------------------------- two submitting threads
\* The calls of SpecLock and ProposeCRS, which is RequestChange(StateAddCRS).
PairCalls ==
    LockCalls
    \cup {[op |-> "ProposeCRS",
           arg |-> [t |-> StateAddCRS,
                    payload |-> [Round |-> 1, CRS |-> "h1"]]]}

LCallPair(t) == LCallFrom(t, PairCalls)

\* All threads but one call into State 1.
NextPair ==
    \E t \in Threads \ {NumThreads} :
      \/ LCallPair(t)
      \/ LRLock(t)
      \/ LRWait(t)
      \/ LRUnlock(t)
      \/ LLock(t)
      \/ LLockWait(t)
      \/ LUnlock(t)
      \/ LPLock(t)
      \/ LPUnlock(t)
      \/ LValidate(t)
      \/ LAppend(t)
      \/ LValidateApply(t)
      \/ LDrain(t)
      \/ LPack(t)
      \/ LDecode(t)
      \/ LApply(t)
      \/ LRead(t)
      \/ LReturn(t)

SpecPair == InitLock /\ [][NextPair]_vars

\* ------------------------------------------------- numeric config changes
\* Changes of k (an int), of phiRatio (a float32, by bit pattern) and of
\* the durations, negative values, zero and NaN included.
DurationTypes ==
    {StateChangeLambdaBA, StateChangeLambdaDKG, StateChangeRoundInterval,
     StateChangeMinBlockInterval, StateChangeMaxBlockInterval}

NumericInputs ==
    {[t |-> StateChangeK, payload |-> v] : v \in {-65536, -1, 0, 1, 255}}
    \cup {[t |-> StateChangePhiRatio, payload |-> f] :
            f \in {F0333, FNaN, FNegZero, Float32(1, 255, 1)}}
    \cup {[t |-> t, payload |-> d] :
            t \in DurationTypes, d \in {-1, 0, 3, Millisecond}}

DoRequestNumeric(i) == RequestChangeCall(i, NumericInputs)

\* State 1 is given the changes and packs them; its peer, State 2,
\* applies the bytes.
NextNum ==
    \/ DoRequestNumeric(1)
    \/ DoPackRequests(1)
    \/ DoApply(2)

SpecNum == InitAtomic /\ [][NextNum]_vars

\* ------------------------------------------------- requests of every kind
\* State 1 is given requests of all six kinds and packs them; its peer,
\* State 2, applies the bytes.
NextOrd ==
    \/ DoRequestChange(1)
    \/ DoRequestConfig(1)
    \/ DoProposeCRS(1)
    \/ DoPackRequests(1)
    \/ DoApply(2)

SpecOrd == InitAtomic /\ [][NextOrd]_vars

\* ------------------------------------------------- Clone and Equal, by threads
\* The body of Clone or of Equal(other), other being State 2: State 1 is
\* read from its first field to its last pending buffer with no lock
\* taken. A Clone keeps what the caller will find in the copy; the read is
\* taken here as one step, the outcome of the race in which no write falls
\* between two of its field reads.
LReadUnlocked(t) ==
    /\ StepOf(t) = "readAll"
    /\ thr' = Done(t,
         IF thr[t].op = "Equal"
         THEN [thr[t] EXCEPT !.err = Equal(View(1), View(2))]
         ELSE [thr[t] EXCEPT !.val =
                 <<Clone(View(1)).numChains, Len(Clone(View(1)).crs),
                   Len(Clone(View(1)).pendingDKGComplaints)>>])
    /\ UNCHANGED <<data, stateLock, pendingLock>>

RaceCalls ==
    {[op |-> "Apply", arg |-> [t |-> StateChangeNothing, payload |-> b]] :
       b \in DeliveredBatches}
    \cup {[op |-> "RequestChange",
           arg |-> [t |-> StateAddDKGComplaint, payload |-> ComplaintObj(1)]],
          [op |-> "Clone", arg |-> NoArg],
          [op |-> "Equal", arg |-> NoArg]}

\* Threads call Apply, RequestChange, Clone and Equal on State 1.
NextRace ==
    \E t \in Threads :
      \/ LCallFrom(t, RaceCalls)
      \/ LRLock(t)
      \/ LRWait(t)
      \/ LRUnlock(t)
      \/ LLock(t)
      \/ LLockWait(t)
      \/ LUnlock(t)
      \/ LPLock(t)
      \/ LPUnlock(t)
      \/ LValidate(t)
      \/ LAppend(t)
      \/ LDecode(t)
      \/ LApply(t)
      \/ LReadUnlocked(t)
      \/ LReturn(t)

SpecRace == InitAtomic /\ [][NextRace]_vars

\* ------------------------------------------------------------- the claims
\* The store by content: complaints compared as Complaint.Equal does,
\* whatever object holds them.
StoreContent(s) ==
    [Store(s) EXCEPT !.dkgComplaints =
       [r \in DOMAIN s.dkgComplaints |->
          [id \in DOMAIN s.dkgComplaints[r] |->
             MapSeq(cloneDKGComplaint, s.dkgComplaints[r][id])]]]

IsPrefix(a, b) == Len(a) <= Len(b) /\ SubSeq(b, 1, Len(a)) = a

ValidationErrors ==
    {ErrDuplicatedChange, ErrForkedCRS, ErrMissingPreviousCRS,
     ErrProposerIsFinal}

\* C2: a batch produced by PackRequests, applied to two States whose
\* stores are equal, returns the same error on both and leaves the two
\* stores equal, whatever their pending buffers and local flags.
C2_DeterministicApply ==
    (wireBy # 0 /\ StoreContent(View(1)) = StoreContent(View(2))) =>
        LET a == Apply(View(1), wire)
            b == Apply(View(2), wire)
        IN  a.err = b.err /\ StoreContent(a.s) = StoreContent(b.s)

\* A packed, non-empty batch that changes the store of two States with
\* equal stores, different local flags and different pending buffers.
C2_Witness ==
    /\ wireBy # 0
    /\ StoreContent(View(1)) = StoreContent(View(2))
    /\ View(1).local # View(2).local
    /\ Pending(View(1)) # Pending(View(2))
    /\ DecodeBatch(wire).reqs # <<>>
    /\ Apply(View(1), wire).err = Nil
    /\ StoreContent(Apply(View(1), wire).s) # StoreContent(View(1))

CRSChainOK(s) == Len(s.crs) >= 1 /\ s.crs[1] = GenesisCRS

\* C3: in every State the CRS chain is non-empty and starts with the
\* genesis CRS, and no call on a State shortens its chain or changes an
\* entry already stored.
C3_CRSChain ==
    [][/\ \A i \in Inst : CRSChainOK(View(i)) /\ CRSChainOK(ViewNext(i))
       /\ \A i \in Inst :
            \/ ret'.op = "Clone" /\ i = 2
            \/ IsPrefix(View(i).crs, ViewNext(i).crs)]_vars

\* An Apply has extended a chain.
C3_Witness ==
    /\ ret.op = "Apply"
    /\ ret.err = Nil
    /\ Len(View(ret.inst).crs) >= 2

\* C4: ProposeCRS(round, h) on a State with L = len(crs) returns
\* ForkedCRS if round < L and crs[round] # h, DuplicatedChange if
\* round < L and crs[round] = h, nil if round = L and MissingPreviousCRS
\* if round > L.
C4_AddCRSValidation ==
    [][ret'.op = "ProposeCRS" =>
         LET s == View(ret'.inst)
             L == Len(s.crs)
             round == ret'.arg.payload.Round
             h == ret'.arg.payload.CRS
         IN  ret'.err =
               IF round < L
               THEN IF s.crs[round + 1] # h THEN ErrForkedCRS
                    ELSE ErrDuplicatedChange
               ELSE IF round = L THEN Nil ELSE ErrMissingPreviousCRS]_vars

\* A fork of a round that was added after the genesis round.
C4_Witness ==
    /\ ret.op = "ProposeCRS"
    /\ ret.err = ErrForkedCRS
    /\ ret.arg.payload.Round >= 1

SameState(a, b) == DOMAIN a = DOMAIN b /\ \A f \in DOMAIN a : a[f] = b[f]

\* What one applied AddCRS(round, h) does to a State.
AddCRSEffect(s, s2, round, h) ==
    /\ Len(s2.crs) = Len(s.crs) + 1
    /\ CRS(s2, round) = h
    /\ \A r \in 0..(Len(s2.crs) - 1) : r # round => CRS(s2, r) = CRS(s, r)
    /\ DOMAIN s2 = DOMAIN s
    /\ \A f \in DOMAIN s : f # "crs" => s2[f] = s[f]

\* The States a run of applyRequest over reqs passes through, up to the
\* first error.
RECURSIVE ApplyWalk(_, _)
ApplyWalk(s, reqs) ==
    IF reqs = <<>> THEN <<s>>
    ELSE LET r == applyRequest(s, Head(reqs))
         IN  IF r.err # Nil THEN <<s>>
             ELSE <<s>> \o ApplyWalk(r.s, Tail(reqs))

\* C5: an AddCRS(round, h) that is applied, by a local-mode ProposeCRS or
\* as one request of an Apply, makes len(crs) one more and CRS(round) = h
\* and changes nothing else.
C5_AddCRSMonotonic ==
    [][/\ (ret'.op = "ProposeCRS" /\ ret'.err = Nil /\ View(ret'.inst).local)
            => AddCRSEffect(View(ret'.inst), ViewNext(ret'.inst),
                            ret'.arg.payload.Round, ret'.arg.payload.CRS)
       /\ (ret'.op = "Apply" /\ DecodeBatch(wire).err = Nil) =>
            LET reqs == DecodeBatch(wire).reqs
                walk == ApplyWalk(View(ret'.inst), reqs)
            IN  /\ SameState(ViewNext(ret'.inst), walk[Len(walk)])
                /\ \A n \in 1..(Len(walk) - 1) :
                     reqs[n].Type = StateAddCRS =>
                       AddCRSEffect(walk[n], walk[n + 1],
                                    reqs[n].Payload.Round,
                                    reqs[n].Payload.CRS)]_vars

\* An Apply has applied an AddCRS of its batch.
C5_Witness ==
    /\ ret.op = "Apply"
    /\ ret.err = Nil
    /\ \E n \in 1..Len(DecodeBatch(wire).reqs) :
         /\ DecodeBatch(wire).reqs[n].Type = StateAddCRS
         /\ CRS(View(ret.inst), DecodeBatch(wire).reqs[n].Payload.Round)
              = DecodeBatch(wire).reqs[n].Payload.CRS
         /\ Len(View(ret.inst).crs) = 2

\* C6: a RequestChange or ProposeCRS that returns a validation error
\* leaves every store and every pending buffer as it was.
C6_RejectedChangesNothing ==
    [][(ret'.op \in {"RequestChange", "ProposeCRS"}
          /\ ret'.err \in ValidationErrors)
         => (obj' = obj /\ heap' = heap /\ wire' = wire)]_vars

\* A CRS proposed again for a round added after genesis: DuplicatedChange.
C6_Witness ==
    /\ ret.op = "ProposeCRS"
    /\ ret.err = ErrDuplicatedChange
    /\ ret.arg.payload.Round >= 1

\* An AddDKGFinal for (round, proposer) was accepted by RequestChange on
\* s, or is applied in its store.
FinalSubmitted(s, round, proposer) ==
    \/ \E n \in 1..Len(s.pendingDKGFinals) :
         s.pendingDKGFinals[n] = Finalize(proposer, round)
    \/ proposer \in DOMAIN MapGet(s.dkgFinals, round, EmptyMap)

FinalApplied(s, round, proposer) ==
    proposer \in DOMAIN MapGet(s.dkgFinals, round, EmptyMap)

ComplaintCall(r) == r.op = "RequestChange" /\ r.arg.t = StateAddDKGComplaint

\* C7 as stated: once an AddDKGFinal for (r, p) was submitted, an
\* AddDKGComplaint for (r, p) returns ProposerIsFinal.
C7_AfterSubmittedFinal ==
    [][(ComplaintCall(ret')
          /\ FinalSubmitted(View(ret'.inst), ret'.arg.payload.Round,
                            ret'.arg.payload.ProposerID))
         => ret'.err = ErrProposerIsFinal]_vars

\* C7 amended: once an AddDKGFinal for (r, p) is applied to the store (by
\* a local-mode RequestChange or by Apply), an AddDKGComplaint for (r, p)
\* returns ProposerIsFinal.
C7_AfterAppliedFinal ==
    [][(ComplaintCall(ret')
          /\ FinalApplied(View(ret'.inst), ret'.arg.payload.Round,
                          ret'.arg.payload.ProposerID))
         => ret'.err = ErrProposerIsFinal]_vars

\* A complaint refused on a replicated State whose final came by Apply.
C7_Witness ==
    /\ ComplaintCall(ret)
    /\ ret.err = ErrProposerIsFinal
    /\ ~View(ret.inst).local

ComplaintsOf(s, round, proposer) ==
    MapGet(MapGet(s.dkgComplaints, round, EmptyMap), proposer, <<>>)

\* C8: once dkgFinals[r][p] exists in a State, no call on that State
\* makes dkgComplaints[r][p] longer.
C8_FinalizedNoComplaints ==
    [][\A i \in Inst : \A p \in Proposers :
         (FinalApplied(View(i), 1, p) /\ ~(ret'.op = "Clone" /\ i = 2))
           => Len(ComplaintsOf(ViewNext(i), 1, p))
                <= Len(ComplaintsOf(View(i), 1, p))]_vars
\* The field of a Snapshot's config that a config change of type t sets.
SnapshotField(c, t) ==
    CASE t = StateChangeNumChains -> c.NumChains
      [] t = StateChangeLambdaBA -> c.LambdaBA
      [] t = StateChangeLambdaDKG -> c.LambdaDKG
      [] t = StateChangeRoundInterval -> c.RoundInterval
      [] t = StateChangeMinBlockInterval -> c.MinBlockInterval
      [] t = StateChangeMaxBlockInterval -> c.MaxBlockInterval
      [] t = StateChangeK -> c.K
      [] t = StateChangePhiRatio -> c.PhiRatio
      [] t = StateChangeNotarySetSize -> c.NotarySetSize
      [] t = StateChangeDKGSetSize -> c.DKGSetSize

\* C9: the batch PackRequests produces on a replicated State holds, for
\* each config type, at most one request; the types it holds are those of
\* the RequestChange calls accepted since the last PackRequests, each with
\* the payload of the last call of its type; and applying the batch on
\* any State makes Snapshot report that payload.
C9_ConfigCoalescing ==
    [][(ret'.op = "PackRequests" /\ ~View(ret'.inst).local) =>
         LET last == hist[ret'.inst]
             batch == DecodeBatch(wire')
             reqs == batch.reqs
             cfg == {n \in 1..Len(reqs) : reqs[n].Type \in ConfigTypes}
         IN  /\ batch.err = Nil
             /\ \A m, n \in cfg : reqs[m].Type = reqs[n].Type => m = n
             /\ {reqs[n].Type : n \in cfg} = DOMAIN last
             /\ \A n \in cfg :
                  reqs[n].Payload =
                    PatchPayload(reqs[n].Type, last[reqs[n].Type].payload)
             /\ \A j \in Inst :
                  LET a == Apply(ViewNext(j), wire')
                  IN  /\ a.err = Nil
                      /\ \A t \in DOMAIN last :
                           SnapshotField(Snapshot(a.s).config, t)
                             = last[t].payload]_vars

\* A PackRequests on a replicated State after two accepted changes of one
\* config type with different payloads, whose batch changes what the
\* other State's Snapshot reports.
C9_Witness ==
    /\ ret.op = "PackRequests"
    /\ ~View(ret.inst).local
    /\ \E t \in DOMAIN ret.arg.payload :
         /\ ret.arg.payload[t].n >= 2
         /\ ret.arg.payload[t].prev # ret.arg.payload[t].payload
         /\ \E j \in Inst \ {ret.inst} :
              /\ SnapshotField(Snapshot(View(j)).config, t)
                   # ret.arg.payload[t].payload
              /\ SnapshotField(Snapshot(Apply(View(j), wire).s).config, t)
                   = ret.arg.payload[t].payload

\* C10: for every State S, S.Clone().Equal(S) returns nil; Clone leaves
\* its source as it was; and a call on one State leaves every other
\* State, the clone or its source, as it was.
C10_CloneIsolation ==
    [][/\ \A i \in Inst : Equal(Clone(ViewNext(i)), ViewNext(i)) = Nil
       /\ ret'.op = "Clone" => SameState(ViewNext(1), View(1))
       /\ ret'.op # "Clone" =>
            \A j \in Inst \ {ret'.inst} : SameState(ViewNext(j), View(j))]_vars

\* Thread t is in a call and its next step can be taken.
CanStep(t) ==
    /\ thr[t].pc = "run"
    /\ CASE StepOf(t) = "RWait" -> t \in stateLock.readers
         [] StepOf(t) = "Lock" -> stateLock.wr = 0
         [] StepOf(t) = "LockWait" -> stateLock.readers = {}
         [] StepOf(t) = "PLock" -> pendingLock = 0
         [] OTHER -> TRUE

\* C1: the threads calling RequestChange, PackRequests, Apply and the
\* accessors on one State are never all blocked on its two locks: while
\* some call has not returned, some call can take its next step.
C1_DeadlockFree ==
    (\E t \in Threads : thr[t].pc = "run") =>
        (\E t \in Threads : CanStep(t))


\* ---- C11
\* The requests of the batch an Apply call was given.
BatchOf(t) == DecodeBatch(BytesOf(thr[t].arg)).reqs

\* Thread a is inside Apply, past the decoding and not yet returned, and
\* the store holds a proper non-empty prefix of its batch.
MidApply(a) ==
    /\ thr[a].pc = "run"
    /\ thr[a].op = "Apply"
    /\ thr[a].prog # <<>>
    /\ StepOf(a) # "decode"
    /\ Len(BatchOf(a)) - Len(thr[a].val) \in 1..(Len(BatchOf(a)) - 1)

\* C11: an accessor (Snapshot, CRS, DKGComplaints, DKGMasterPublicKeys,
\* IsDKGFinal) never reads the store while an Apply call in progress has
\* applied a proper non-empty prefix of its batch: whenever the body of an
\* accessor runs, no Apply call is in that position, so what it reads is
\* the store before some Apply took the lock or after it released it.
C11_BatchAtomicForReaders ==
    [][\A t \in Threads :
         (StepOf(t) = "read" /\ thr'[t] # thr[t])
           => \A a \in Threads : ~MidApply(a)]_vars

\* An accessor waits for the read lock while an Apply call has applied a
\* proper non-empty prefix of its batch.
C11_Witness ==
    \E a, t \in Threads :
      /\ MidApply(a)
      /\ thr[t].pc = "run"
      /\ thr[t].op \in Accessors
      /\ StepOf(t) = "RWait"

\* ---- C12
\* C12: when the i-th request of a decoded batch is the first one
\* applyRequest refuses, Apply returns that error and leaves the State as
\* it is after requests 1..i-1: request i and the requests after it have
\* no effect.
C12_ApplyPartialFailure ==
    [][(nops' = nops + 1 /\ ret'.op = "Apply"
          /\ DecodeBatch(wire').err = Nil) =>
         LET reqs == DecodeBatch(wire').reqs
             walk == ApplyWalk(View(ret'.inst), reqs)
             i == Len(walk)
         IN  IF i <= Len(reqs)
             THEN /\ ret'.err = applyRequest(walk[i], reqs[i]).err
                  /\ ret'.err # Nil
                  /\ SameState(ViewNext(ret'.inst), walk[i])
             ELSE ret'.err = Nil]_vars

\* The first call on a new State is an Apply of three requests that
\* returns the error of the second: the Finalize of the first request is
\* in the store and the CRS of the third is not.
C12_Witness ==
    /\ nops = 1
    /\ ret.op = "Apply"
    /\ DecodeBatch(wire).err = Nil
    /\ Len(DecodeBatch(wire).reqs) = 3
    /\ ret.err = ErrKeyParse
    /\ IsDKGFinal(View(ret.inst), 1, 0)
    /\ Len(View(ret.inst).crs) = 1

\* ---- C13
\* The types unpackPayload knows.
RecognisedTypes == StateAddCRS..StateAddNode

\* Byte stream b is not a batch: it is not a list, or one of its raw
\* requests has a type outside the recognised ones (0 included) or a
\* payload that does not unpack.
Undecodable(b) ==
    \/ b.k # "list"
    \/ \E j \in 1..Len(b.v) :
         \/ b.v[j].Type \notin RecognisedTypes
         \/ unpackPayload(b.v[j]).err # Nil

\* C13: an Apply of bytes that do not decode returns an error and leaves
\* the store and the pending buffers of every State as they were, even
\* when the raw requests before the bad one are valid.
C13_DecodeFailureAllOrNothing ==
    [][(nops' = nops + 1 /\ ret'.op = "Apply" /\ Undecodable(wire')) =>
         /\ ret'.err # Nil
         /\ \A i \in Inst : SameState(ViewNext(i), View(i))]_vars

\* An Apply has returned an error for a list whose first raw request is
\* valid and whose second is not, on a State with pending requests.
C13_Witness ==
    /\ ret.op = "Apply"
    /\ ret.err # Nil
    /\ wire.k = "list"
    /\ Len(wire.v) >= 2
    /\ unpackPayload(wire.v[1]).err = Nil
    /\ wire.v[1].Type \in RecognisedTypes
    /\ wire.v[2].Type \notin RecognisedTypes
    /\ View(ret.inst).pendingDKGFinals # <<>>
    /\ View(ret.inst).dkgFinals = EmptyMap

\* ---- C14
Submitters == {"RequestChange", "ProposeCRS", "PackRequests"}

\* C14: on a State in replicated mode no step of a RequestChange, a
\* ProposeCRS or a PackRequests call changes the store, whether the call
\* succeeds or not; a step that changes the store is a step of Apply; and
\* a thread inside RequestChange or ProposeCRS never holds the state lock
\* in write mode.
C14_ReplicatedStoreFrame ==
    [][~View(1).local =>
         /\ \A t \in Threads :
              (thr'[t] # thr[t] /\ thr[t].pc = "run"
                 /\ thr[t].op \in Submitters)
                => Store(ViewNext(1)) = Store(View(1))
         /\ (heap' # heap /\ Store(ViewNext(1)) # Store(View(1)))
              => \E t \in Threads :
                   /\ thr[t].pc = "run"
                   /\ thr[t].op = "Apply"
                   /\ thr'[t] # thr[t]
         /\ \A t \in Threads :
              (thr'[t].pc = "run"
                 /\ thr'[t].op \in {"RequestChange", "ProposeCRS"})
                => stateLock'.wr # t]_vars

\* On a State in replicated mode a ProposeCRS and a RequestChange were
\* accepted and PackRequests has packed them, and the store is still that
\* of a new State.
C14_Witness ==
    /\ ~View(1).local
    /\ ret.op = "PackRequests"
    /\ View(1).pendingCRS # <<>>
    /\ View(1).pendingDKGFinals # <<>>
    /\ wireBy = 1
    /\ Len(DecodeBatch(wire).reqs) = 2
    /\ Store(View(1)) = Store(NewState(GenesisKeys, Lambda, FALSE))

\* ---- C15
\* What the next accessor call shows of an applied request arg.
Visible(s, arg) ==
    CASE arg.t = StateAddCRS -> CRS(s, arg.payload.Round) = arg.payload.CRS
      [] arg.t = StateAddDKGFinal ->
           /\ IsDKGFinal(s, arg.payload.Round, 0)
           /\ FinalApplied(s, arg.payload.Round, arg.payload.ProposerID)
      [] arg.t = StateAddDKGComplaint ->
           \E order \in RangeOrders(RangedMap(s, "DKGComplaints", arg.payload)) :
             LET comps == DKGComplaints(s, arg.payload.Round, order)
             IN  \E n \in 1..Len(comps) : ComplaintEqual(comps[n], arg.payload)

NoPending(s) ==
    /\ s.pendingChangedConfigs = EmptyMap
    /\ s.pendingNodes = <<>>
    /\ s.pendingDKGComplaints = <<>>
    /\ s.pendingDKGFinals = <<>>
    /\ s.pendingDKGMasterPublicKeys = <<>>
    /\ s.pendingCRS = <<>>

\* C15: on a State in local mode a RequestChange or ProposeCRS that
\* isValidRequest accepts is applied to the store at once, so that the
\* next accessor shows it; the pending buffers of a local State are empty
\* at all times, and its PackRequests yields the empty batch.
C15_LocalAppliesAtOnce ==
    [][\A s \in {View(ret'.inst)}, s2 \in {ViewNext(ret'.inst)} :
       /\ \A i \in Inst : ViewNext(i).local => NoPending(ViewNext(i))
       /\ (nops' = nops + 1 /\ s.local) =>
            /\ (ret'.op \in {"RequestChange", "ProposeCRS"}
                  /\ isValidRequest(s, RequestOf(ret'.arg)) = Nil)
                 => /\ ret'.err = Nil
                    /\ Visible(s2, ret'.arg)
                    /\ SameState(s2, applyRequest(s, RequestOf(ret'.arg)).s)
            /\ ret'.op = "PackRequests"
                 => /\ ret'.err = Nil
                    /\ wire' = EncodeBatch(<<>>)
                    /\ DecodeBatch(wire').reqs = <<>>]_vars

\* A State in local mode has packed the empty batch after a Finalize and
\* a CRS were requested of it and are in its store.
C15_Witness ==
    /\ ret.op = "PackRequests"
    /\ wireBy = ret.inst
    /\ View(ret.inst).local
    /\ IsDKGFinal(View(ret.inst), 1, 0)
    /\ CRS(View(ret.inst), 1) = "h1"
    /\ DecodeBatch(wire).reqs = <<>>
    /\ nops = 3

\* ---- C16
\* Thread t holds the state lock, in read or in write mode.
HoldsStateLock(t) ==
    \/ t \in stateLock.readers
    \/ (stateLock.wr = t /\ stateLock.held)

\* C16: a thread that holds the state lock and the pending lock together
\* is inside PackRequests, and a thread that takes the pending lock does
\* not hold the state lock at that moment.
C16_LockOrder ==
    [][\A t \in Threads :
         /\ (pendingLock' = t /\ HoldsStateLock(t)' /\ thr'[t].pc = "run")
              => thr'[t].op = "PackRequests"
         /\ (pendingLock' = t /\ pendingLock # t) => ~HoldsStateLock(t)]_vars

\* ---- C17
\* s with its pending node, DKG and CRS buffers cleared.
ClearPending(s) ==
    [s EXCEPT !.pendingNodes = <<>>, !.pendingDKGComplaints = <<>>,
              !.pendingDKGFinals = <<>>, !.pendingDKGMasterPublicKeys = <<>>,
              !.pendingCRS = <<>>]

\* State 1 (A) and State 2 (B) were constructed alike in replicated mode,
\* A was given requests and has packed them, nothing was applied to A and
\* B is as constructed.
ReplayScenario ==
    /\ ret.op = "PackRequests"
    /\ ret.inst = 1
    /\ wireBy = 1
    /\ DecodeBatch(wire).err = Nil
    /\ DecodeBatch(wire).reqs # <<>>
    /\ ~View(1).local
    /\ Store(View(1)) = Store(NewState(GenesisKeys, Lambda, FALSE))
    /\ SameState(View(2), NewState(GenesisKeys, Lambda, FALSE))

\* C17: in the replay scenario, once B has applied the bytes A packed,
\* A.Equal(B) is nil or the pending mismatch, never a mismatch of the
\* config, the node set, a DKG table or the CRS, and with A's pending
\* node, DKG and CRS buffers cleared A.Equal(B) is nil.
C17_DeterministicReplay ==
    [][(ReplayScenario /\ nops' = nops + 1 /\ ret'.op = "Apply"
          /\ ret'.inst = 2) =>
         /\ Equal(ViewNext(1), ViewNext(2))
              \in {Nil, ErrStatePendingChangesNotEqual}
         /\ Equal(ClearPending(ViewNext(1)), ViewNext(2)) = Nil]_vars

StoreErrors ==
    {ErrStateConfigNotEqual, ErrStateNodeSetNotEqual,
     ErrStateDKGComplaintsNotEqual, ErrStateDKGMasterPublicKeysNotEqual,
     ErrStateDKGFinalsNotEqual, ErrStateCRSsNotEqual}

\* C17, amended: in the replay scenario A's store is still as constructed
\* when B has applied the bytes, so A.Equal(B) is the mismatch of a store
\* part whenever the batch changed B's store. Once A has applied the same
\* bytes as well, A.Equal(B) is the pending mismatch if A's pending node,
\* DKG or CRS buffers hold something and nil if not, and nil with those
\* buffers cleared; when the batch set phiRatio to NaN, Equal returns the
\* config mismatch in all these cases.
C17_ReplayAfterBothApply ==
    [][(ReplayScenario /\ nops' = nops + 1 /\ ret'.op = "Apply"
          /\ ret'.inst = 2) =>
         LET a == ViewNext(1)
             b == ViewNext(2)
             a2 == Apply(a, wire).s
             nan == IsNaN(b.phiRatio)
         IN  /\ Store(b) # Store(a) => Equal(a, b) \in StoreErrors
             /\ Equal(a2, b) =
                  IF nan THEN ErrStateConfigNotEqual
                  ELSE IF NoPending(a2) THEN Nil
                  ELSE ErrStatePendingChangesNotEqual
             /\ Equal(ClearPending(a2), b) =
                  IF nan THEN ErrStateConfigNotEqual ELSE Nil]_vars

\* B has applied the two requests of different types that A packed: the
\* stores of A and B differ, and A still holds a pending request.
C17_Witness ==
    /\ nops = 4
    /\ ret.op = "Apply"
    /\ ret.inst = 2
    /\ ret.err = Nil
    /\ wireBy = 1
    /\ ~View(1).local
    /\ Len(DecodeBatch(wire).reqs) = 2
    /\ DecodeBatch(wire).reqs[1].Type # DecodeBatch(wire).reqs[2].Type
    /\ Store(View(1)) = Store(NewState(GenesisKeys, Lambda, FALSE))
    /\ SameState(View(2), Apply(NewState(GenesisKeys, Lambda, FALSE), wire).s)
    /\ Equal(View(1), View(2)) \in StoreErrors
    /\ ~NoPending(View(1))

\* ---- C18
\* C18: an AddDKGComplaint whose complaint is the same object as, or
\* structurally equal to, one stored under its (round, proposer), the
\* proposer not being final, returns DuplicatedChange, also when the
\* stored complaint came through Apply.
C18_DuplicateComplaintRejected ==
    [][(nops' = nops + 1 /\ ComplaintCall(ret')
          /\ ~FinalApplied(View(ret'.inst), ret'.arg.payload.Round,
                           ret'.arg.payload.ProposerID)
          /\ \E n \in 1..Len(ComplaintsOf(View(ret'.inst),
                                          ret'.arg.payload.Round,
                                          ret'.arg.payload.ProposerID)) :
               ComplaintEqual(ComplaintsOf(View(ret'.inst),
                                           ret'.arg.payload.Round,
                                           ret'.arg.payload.ProposerID)[n],
                              ret'.arg.payload))
         => ret'.err = ErrDuplicatedChange]_vars

\* ---- C19
\* C19: an Apply of the batch that the call before it applied to the same
\* State leaves the store as it was: config, node set, CRS chain and every
\* DKG table, the complaints of each proposer included.
C19_ReplaySafe ==
    [][(ret.op = "Apply" /\ ret.err = Nil /\ nops' = nops + 1
          /\ ret'.op = "Apply" /\ ret'.inst = ret.inst /\ wire' = wire)
         => StoreContent(ViewNext(ret.inst)) = StoreContent(View(ret.inst))]_vars

\* ---- C20
\* The proposers with a Finalize record in the store of s for the round.
FinalSet(s, round) == {p \in Proposers : FinalApplied(s, round, p)}

\* The number n for which IsDKGFinal(round, t) is true exactly for t < n.
FinalCount(s, round) ==
    CHOOSE n \in 0..Cardinality(Proposers) :
      \A t \in -1..(Cardinality(Proposers) + 1) :
        IsDKGFinal(s, round, t) <=> n > t

\* The (round, proposer) pairs whose Finalize the call just made has
\* applied to the store of the State it was made on, s before the call.
FinalsAppliedInStep(s) ==
    IF ret'.op = "RequestChange" /\ ret'.arg.t = StateAddDKGFinal
       /\ ret'.err = Nil /\ s.local
    THEN {<<ret'.arg.payload.Round, ret'.arg.payload.ProposerID>>}
    ELSE IF ret'.op = "Apply" /\ DecodeBatch(wire').err = Nil
    THEN LET reqs == DecodeBatch(wire').reqs
             done == Len(ApplyWalk(s, reqs)) - 1
         IN  {<<reqs[n].Payload.Round, reqs[n].Payload.ProposerID>> :
                n \in {m \in 1..done : reqs[m].Type = StateAddDKGFinal}}
    ELSE {}

\* C20: IsDKGFinal(r, t) is true exactly when more than t distinct
\* proposers have a Finalize applied for round r in the store: each
\* applied AddDKGFinal adds its proposer once, however often it is
\* applied, and a Finalize that is only pending adds nothing.
C20_IsDKGFinalCounts ==
    [][nops' = nops + 1 =>
         \A i \in {IF ret'.op = "Clone" THEN 2 ELSE ret'.inst} :
         \A s \in {View(i)}, s2 \in {ViewNext(i)} :
         \A applied \in {FinalsAppliedInStep(s)} :
         \A r \in 0..MaxRound :
           /\ \A t \in -1..(Cardinality(Proposers) + 1) :
                IsDKGFinal(s2, r, t) <=> Cardinality(FinalSet(s2, r)) > t
           /\ ret'.op # "Clone" =>
                FinalCount(s2, r) =
                  Cardinality(FinalSet(s, r)
                              \cup {p \in Proposers :
                                      <<r, p>> \in applied})]_vars

\* A State has applied a batch holding the Finalize of one proposer
\* twice and counts one proposer; the State that packed the batch holds
\* the two as pending and counts none.
C20_Witness ==
    /\ ret.op = "Apply"
    /\ ret.err = Nil
    /\ wireBy # ret.inst
    /\ wireBy \in Inst
    /\ Len(DecodeBatch(wire).reqs) = 2
    /\ DecodeBatch(wire).reqs[1] = DecodeBatch(wire).reqs[2]
    /\ DecodeBatch(wire).reqs[1].Type = StateAddDKGFinal
    /\ IsDKGFinal(View(ret.inst), 1, 0)
    /\ ~IsDKGFinal(View(ret.inst), 1, 1)
    /\ Len(View(wireBy).pendingDKGFinals) = 2
    /\ ~IsDKGFinal(View(wireBy), 1, 0)

\* ---- C21
\* C21: when a replicated State has packed its pending changes and its
\* peer applies the bytes next, the Apply returns nil and the peer's
\* Snapshot reports, for k, for phiRatio and for each duration, exactly
\* the value last given to RequestChange: a negative k through uint64 and
\* back, a phiRatio bit for bit through uint32.
C21_NumericRoundTrip ==
    [][(ret.op = "PackRequests" /\ ret.inst = 1 /\ nops' = nops + 1
          /\ ret'.op = "Apply" /\ ret'.inst = 2) =>
         \A c \in {Snapshot(ViewNext(2)).config} :
           /\ ret'.err = Nil
           /\ \A t \in DOMAIN ret.arg.payload :
                SnapshotField(c, t) = ret.arg.payload[t].payload]_vars

\* The peer has applied a batch that set k to a negative value and
\* phiRatio to a NaN, and its Snapshot reports both.
C21_Witness ==
    /\ ret.op = "Apply"
    /\ ret.inst = 2
    /\ ret.err = Nil
    /\ Len(DecodeBatch(wire).reqs) = 2
    /\ Snapshot(View(2)).config.K = -65536
    /\ Snapshot(View(2)).config.PhiRatio = Float32(1, 255, 1)

\* ---- C22
\* C22: on every State and for every round, CRS(round) is the chain's
\* entry for the round if the chain has one and the zero hash otherwise;
\* and when ProposeCRS is accepted by a replicated State, the proposal is
\* pending and CRS of the proposed round still reads as the zero hash.
C22_CRSAccessor ==
    [][/\ \A i \in Inst, round \in 0..(MaxRound + 1) :
            \A s \in {ViewNext(i)} :
              CRS(s, round) =
                IF round < Len(s.crs) THEN s.crs[round + 1] ELSE ZeroHash
       /\ (ret'.op = "ProposeCRS" /\ ret'.err = Nil /\ nops' = nops + 1
             /\ ~View(ret'.inst).local) =>
            \A s \in {View(ret'.inst)}, s2 \in {ViewNext(ret'.inst)} :
              /\ s2.crs = s.crs
              /\ Len(s2.pendingCRS) = Len(s.pendingCRS) + 1
              /\ CRS(s2, ret'.arg.payload.Round) = ZeroHash]_vars

\* A replicated State has accepted a second proposal for round 1, both
\* are pending, and CRS(1) is the zero hash while CRS(0) is the genesis
\* CRS.
C22_Witness ==
    /\ ret.op = "ProposeCRS"
    /\ ret.err = Nil
    /\ ~View(ret.inst).local
    /\ ret.arg.payload.Round = 1
    /\ Len(View(ret.inst).pendingCRS) = 2
    /\ CRS(View(ret.inst), 1) = ZeroHash
    /\ CRS(View(ret.inst), 0) = GenesisCRS

\* ---- C23
\* The requests of a batch that are not configuration changes.
NonConfig(reqs) == SelectSeq(reqs, LAMBDA r : r.Type \notin ConfigTypes)

\* C23: PackRequests leaves the pending configuration map empty and
\* leaves the five pending sequences and the store as they were; the
\* bytes a PackRequests would return next hold the node, DKG and CRS
\* requests of the batch just packed, in the same order, and no
\* configuration change, and so do the bytes of a PackRequests that
\* follows a PackRequests of the same State.
C23_PackRequestsFrame ==
    [][(ret'.op = "PackRequests" /\ nops' = nops + 1) =>
         \A s \in {View(ret'.inst)}, s2 \in {ViewNext(ret'.inst)} :
           /\ s2.pendingChangedConfigs = EmptyMap
           /\ s2.pendingNodes = s.pendingNodes
           /\ s2.pendingDKGComplaints = s.pendingDKGComplaints
           /\ s2.pendingDKGFinals = s.pendingDKGFinals
           /\ s2.pendingDKGMasterPublicKeys = s.pendingDKGMasterPublicKeys
           /\ s2.pendingCRS = s.pendingCRS
           /\ Store(s2) = Store(s)
           /\ s2.local = s.local
           /\ \A again \in {PackRequests(s2, <<>>)} :
                /\ again.b = EncodeBatch(NonConfig(DecodeBatch(wire').reqs))
                /\ again.s.pendingChangedConfigs = EmptyMap
           /\ (ret.op = "PackRequests" /\ ret.inst = ret'.inst) =>
                wire' = EncodeBatch(NonConfig(DecodeBatch(wire).reqs))]_vars

\* A State has packed a batch of a configuration change and one other
\* request: its configuration map is empty, the other request is still
\* pending, and the bytes of its next PackRequests hold that request alone.
C23_Witness ==
    /\ ret.op = "PackRequests"
    /\ ret.arg.payload # EmptyMap
    /\ Len(DecodeBatch(wire).reqs) = 2
    /\ Len(NonConfig(DecodeBatch(wire).reqs)) = 1
    /\ View(ret.inst).pendingChangedConfigs = EmptyMap
    /\ Len(View(ret.inst).pendingNodes)
         + Len(View(ret.inst).pendingDKGMasterPublicKeys) = 1
    /\ Len(DecodeBatch(PackRequests(View(ret.inst), <<>>).b).reqs) = 1

\* ---- C24
\* The place of a request type in a batch.
GroupRank(t) ==
    CASE t = StateAddNode -> 1
      [] t = StateAddDKGComplaint -> 2
      [] t = StateAddDKGFinal -> 3
      [] t = StateAddDKGMasterPublicKey -> 4
      [] t = StateAddCRS -> 5
      [] OTHER -> 0

\* The pending sequence a request type is kept in.
PendingOf(s, t) ==
    CASE t = StateAddNode -> s.pendingNodes
      [] t = StateAddDKGComplaint -> s.pendingDKGComplaints
      [] t = StateAddDKGFinal -> s.pendingDKGFinals
      [] t = StateAddDKGMasterPublicKey -> s.pendingDKGMasterPublicKeys
      [] t = StateAddCRS -> s.pendingCRS

SequenceTypes ==
    {StateAddNode, StateAddDKGComplaint, StateAddDKGFinal,
     StateAddDKGMasterPublicKey, StateAddCRS}

\* C24: a request a replicated State accepts goes to the end of the
\* pending sequence of its type; in the batch PackRequests returns the
\* configuration changes come first, then the AddNode, AddDKGComplaint,
\* AddDKGFinal, AddDKGMasterPublicKey and AddCRS requests, each of these
\* groups being its pending sequence in order; and Apply runs the requests
\* of the bytes from first to last.
C24_BatchOrdering ==
    [][\A s \in {View(ret'.inst)}, s2 \in {ViewNext(ret'.inst)} :
       /\ (ret'.op \in {"RequestChange", "ProposeCRS"} /\ ret'.err = Nil
             /\ nops' = nops + 1 /\ ret'.arg.t \in SequenceTypes) =>
            \A t \in SequenceTypes :
              PendingOf(s2, t) =
                IF t = ret'.arg.t
                THEN Append(PendingOf(s, t),
                            PatchPayload(t, ret'.arg.payload))
                ELSE PendingOf(s, t)
       /\ (ret'.op = "PackRequests" /\ nops' = nops + 1) =>
            /\ wire'.k = "list"
            /\ \A a, b \in 1..Len(wire'.v) :
                 a < b => GroupRank(wire'.v[a].Type) <= GroupRank(wire'.v[b].Type)
            /\ \A t \in SequenceTypes :
                 SelectSeq(wire'.v, LAMBDA r : r.Type = t)
                   = EncodeBatch(TypedRequests(t, PendingOf(s, t))).v
            /\ {wire'.v[a].Type : a \in {a \in 1..Len(wire'.v) :
                                          GroupRank(wire'.v[a].Type) = 0}}
                 = DOMAIN s.pendingChangedConfigs
       /\ (ret'.op = "Apply" /\ nops' = nops + 1
             /\ DecodeBatch(wire).err = Nil) =>
            \A walk \in {ApplyWalk(s, DecodeBatch(wire).reqs)} :
              /\ SameState(s2, walk[Len(walk)])
              /\ ret'.err = Nil <=> Len(walk) = Len(DecodeBatch(wire).reqs) + 1
              /\ ret'.err # Nil =>
                   ret'.err = applyRequest(walk[Len(walk)],
                                DecodeBatch(wire).reqs[Len(walk)]).err]_vars

\* A State has packed a configuration change and the DKG finals of two
\* proposers, in this order.
C24_Witness ==
    /\ ret.op = "PackRequests"
    /\ DecodeBatch(wire).err = Nil
    /\ \A reqs \in {DecodeBatch(wire).reqs} :
         /\ Len(reqs) = 3
         /\ reqs[1].Type \in ConfigTypes
         /\ reqs[2].Type = StateAddDKGFinal
         /\ reqs[3].Type = StateAddDKGFinal
         /\ reqs[2].Payload.ProposerID # reqs[3].Payload.ProposerID

\* ---- C25
\* Table new is table old but for its entry of (round, proposer).
OthersKept(old, new, round, proposer) ==
    LET forRound == MapGet(old, round, EmptyMap)
    IN  /\ DOMAIN new = DOMAIN old \cup {round}
        /\ \A r \in DOMAIN old \ {round} : new[r] = old[r]
        /\ DOMAIN new[round] = DOMAIN forRound \cup {proposer}
        /\ \A q \in DOMAIN forRound \ {proposer} : new[round][q] = forRound[q]

\* What applying the DKG request req to s has made of it in s2.
DKGInsert(s, s2, req) ==
    LET p == req.Payload
        old == MapGet(MapGet(s.dkgComplaints, p.Round, EmptyMap),
                      p.ProposerID, <<>>)
    IN  CASE req.Type = StateAddDKGComplaint ->
               /\ OthersKept(s.dkgComplaints, s2.dkgComplaints,
                             p.Round, p.ProposerID)
               /\ s2.dkgComplaints[p.Round][p.ProposerID] = Append(old, p)
               /\ s2.dkgMasterPublicKeys = s.dkgMasterPublicKeys
               /\ s2.dkgFinals = s.dkgFinals
          [] req.Type = StateAddDKGMasterPublicKey ->
               /\ OthersKept(s.dkgMasterPublicKeys, s2.dkgMasterPublicKeys,
                             p.Round, p.ProposerID)
               /\ s2.dkgMasterPublicKeys[p.Round][p.ProposerID] = p
               /\ s2.dkgComplaints = s.dkgComplaints
               /\ s2.dkgFinals = s.dkgFinals
          [] req.Type = StateAddDKGFinal ->
               /\ OthersKept(s.dkgFinals, s2.dkgFinals, p.Round, p.ProposerID)
               /\ s2.dkgFinals[p.Round][p.ProposerID] = p
               /\ s2.dkgComplaints = s.dkgComplaints
               /\ s2.dkgMasterPublicKeys = s.dkgMasterPublicKeys
          [] OTHER -> TRUE

StoreSteps == {"read", "validate", "validateApply", "apply", "readAll"}
PendingSteps == {"append", "drain", "pack", "readAll"}

\* C26: a thread that runs a step reading the config, the nodes, the CRS
\* chain or the DKG tables, the bodies of Clone and of Equal included,
\* holds the state lock, and no Apply call of another thread has applied
\* a proper non-empty prefix of its batch at that moment; a thread that
\* runs a step reading or writing the pending buffers holds the pending
\* lock.
C26_LockCoverage ==
    [][\A t \in Threads :
         thr'[t] # thr[t] =>
           /\ StepOf(t) \in StoreSteps =>
                /\ HoldsStateLock(t)
                /\ \A a \in Threads \ {t} : ~MidApply(a)
           /\ StepOf(t) \in PendingSteps => pendingLock = t]_vars

\* ---- C27
\* C27: when a replicated State has packed its pending requests, each of
\* them accepted by RequestChange or ProposeCRS, and the next call is an
\* Apply of these bytes to a State whose store equals the store of the
\* packing State, the Apply returns nil.
C27_PackedBatchApplies ==
    [][(ret.op = "PackRequests" /\ ~View(ret.inst).local
          /\ wireBy = ret.inst /\ nops' = nops + 1
          /\ ret'.op = "Apply" /\ wire' = wire
          /\ StoreContent(View(ret'.inst)) = StoreContent(View(ret.inst)))
         => ret'.err = Nil]_vars
=============================================================================
